---- MODULE Spec2Model ----
(***************************************************************************)
(* A model of CodeObserver's analysis core: the AnalysisEngine that routes *)
(* each request to the LM Studio analyzer or to the heuristic fallback     *)
(* under a health latch, the two analyzers, the activity digest, and the   *)
(* bounded InsightStore.                                                   *)
(*                                                                         *)
(* Numbers with decimals (confidences) are integers in thousandths:        *)
(* 0.55 is 550, 0.99 is 990.  Text the code only copies is a string tag;   *)
(* text the code takes apart (URIs, the LM Studio response) is a record or *)
(* a sequence of segments, so that the taking apart is modelled.           *)
(***************************************************************************)
EXTENDS Integers, Sequences, FiniteSets, TLC

(***************************************************************************)
(* Bounds of the model.                                                    *)
(***************************************************************************)
NumClients == 2
MaxChatCalls == 2
MaxPayloadActions == 5
MaxInserts == 4
MaxCap == 3
NumInsights == 3

(***************************************************************************)
(* JavaScript values.                                                      *)
(***************************************************************************)
ABSENT == "~absent~"

JsNumber(milli) == [type |-> "number", milli |-> milli, text |-> ""]
JsString(text) == [type |-> "string", milli |-> 0, text |-> text]
JsInfinity == [type |-> "infinity", milli |-> 0, text |-> ""]
JsNull == [type |-> "null", milli |-> 0, text |-> ""]
JsUndefined == [type |-> "undefined", milli |-> 0, text |-> ""]
JsEmptyArray == [type |-> "array", milli |-> 0, text |-> ""]

NaN == [finite |-> FALSE, milli |-> 0]
Finite(milli) == [finite |-> TRUE, milli |-> milli]

\* Number(value): a number is itself, null is 0, undefined is NaN, a string
\* is the number it spells ("" is 0) or NaN, an empty array is 0.
ToNumber(value) ==
  CASE value.type = "number" -> Finite(value.milli)
    [] value.type = "infinity" -> NaN
    [] value.type = "null" -> Finite(0)
    [] value.type = "array" -> Finite(0)
    [] value.type = "undefined" -> NaN
    [] value.type = "string" ->
         CASE value.text = "" -> Finite(0)
           [] value.text = "0.5" -> Finite(500)
           [] OTHER -> NaN

\* String(value) for the non-string values a JSON array can hold.
JsToString(value) ==
  CASE value.type = "string" -> value.text
    [] value.type = "number" -> IF value.milli = 7000 THEN "7" ELSE "0"
    [] value.type = "infinity" -> "Infinity"
    [] value.type = "null" -> "null"
    [] value.type = "undefined" -> "undefined"
    [] value.type = "array" -> ""

\* String.prototype.trim on the texts of the model.
Trim(text) ==
  CASE text = " " -> ""
    [] text = " Pause and review. " -> "Pause and review."
    [] text = " lms " -> "lms"
    [] OTHER -> text

Min(a, b) == IF a <= b THEN a ELSE b
Max(a, b) == IF a >= b THEN a ELSE b

\* Number(x.toFixed(2)) on thousandths: round half away from zero to hundredths.
ToFixed2(milli) ==
  IF milli >= 0 THEN ((milli + 5) \div 10) * 10 ELSE -(((-milli + 5) \div 10) * 10)

(***************************************************************************)
(* Sequences.                                                              *)
(***************************************************************************)
\* new Set(xs) read back as an array: first occurrences, in order.
Dedup(xs) ==
  LET firsts == {i \in 1..Len(xs) : \A j \in 1..(i - 1) : xs[j] # xs[i]}
      rank(i) == Cardinality({j \in firsts : j <= i})
  IN [k \in 1..Cardinality(firsts) |-> xs[CHOOSE i \in firsts : rank(i) = k]]

Reverse(xs) == [i \in 1..Len(xs) |-> xs[Len(xs) + 1 - i]]

\* Array.prototype.slice(0, n), n >= 0.
SliceHead(xs, n) == SubSeq(xs, 1, Min(n, Len(xs)))

\* Array.prototype.slice(-n), n >= 0: the last n elements; slice(-0) is
\* slice(0), the whole array.
SliceTail(xs, n) ==
  IF n = 0 \/ n >= Len(xs) THEN xs ELSE SubSeq(xs, Len(xs) - n + 1, Len(xs))

Repeat(x, n) == [i \in 1..n |-> x]

(***************************************************************************)
(* Activity events and the digest (activityStats.ts).                      *)
(***************************************************************************)
\* A URI: its scheme, the path segments and the query ("" when there is none).
Uri(scheme, segments, query) == [scheme |-> scheme, segments |-> segments, query |-> query]

FileA == Uri("file", <<"workspace", "file.ts">>, "")
FileB == Uri("file", <<"workspace", "docs", "notes.md">>, "hash=123")
ManualUri == Uri("codeobserver", <<"manual">>, "")

\* The largest time value a Date holds (8.64e15 ms in ECMAScript), scaled down.
DateRangeLimit == 100000

Event(kind, uri, languageId, timestamp) ==
  [kind |-> kind, uri |-> uri, languageId |-> languageId, timestamp |-> timestamp]

\* new Date(event.timestamp || Date.now()).toISOString() throws a RangeError
\* for a time value outside the Date range; 0 is replaced by the current time.
ToISOStringThrows(timestamp) ==
  timestamp # 0 /\ (timestamp > DateRangeLimit \/ timestamp < -DateRangeLimit)

describeEvent(event, ordinal) ==
  [ordinal |-> ordinal, kind |-> event.kind, timestamp |-> event.timestamp,
   languageId |-> event.languageId, uri |-> event.uri,
   threw |-> ToISOStringThrows(event.timestamp)]

IsChange(event) == event.kind = "documentChange"
IsSave(event) == event.kind = "documentSave"
HasLanguage(event) == event.languageId # ""

buildActivityStats(context, maxEvents) ==
  LET events == context.events
      shown == Reverse(SliceTail(events, maxEvents))
      recentEvents == [i \in 1..Len(shown) |-> describeEvent(shown[i], i)]
      withLanguage == SelectSeq(events, HasLanguage)
  IN [files |-> Dedup([i \in 1..Len(events) |-> events[i].uri]),
      languages |-> Dedup([i \in 1..Len(withLanguage) |-> withLanguage[i].languageId]),
      changeCount |-> Len(SelectSeq(events, IsChange)),
      saveCount |-> Len(SelectSeq(events, IsSave)),
      eventCount |-> Len(events),
      recentEvents |-> recentEvents,
      threw |-> \E i \in 1..Len(recentEvents) : recentEvents[i].threw]

(***************************************************************************)
(* The heuristic analyzer (HeuristicAnalyzer).                             *)
(***************************************************************************)
\* decodeURIComponent on the names of the model; a malformed escape throws.
DecodeThrows(name) == name = "bad%E0%A4%A.ts"
decodeURIComponent(name) == IF name = "my%20notes.md" THEN "my notes.md" ELSE name

\* HeuristicAnalyzer.extractFileName: ABSENT stands for undefined.
HeuristicExtractFileName(uri) ==
  IF uri.scheme # "file" THEN ABSENT
  ELSE LET candidate == IF uri.segments = <<>> THEN "" ELSE uri.segments[Len(uri.segments)]
       IN CASE candidate = "" -> ABSENT
            [] DecodeThrows(candidate) -> candidate
            [] OTHER -> decodeURIComponent(candidate)

IsPresent(name) == name # ABSENT

collectFileNames(uris) ==
  Dedup(SelectSeq([i \in 1..Len(uris) |-> HeuristicExtractFileName(uris[i])], IsPresent))

selectRepresentativeFiles(uris) == SliceHead(collectFileNames(uris), 3)

ActionWalk == "Walk through the focus files and capture follow-ups."
ActionSync == "Sync interface changes across languages to prevent drift."
ActionCheckpoint == "Checkpoint the current work to create a safe rollback point."
ActionEvaluate == "Evaluate whether the latest edits reinforce the objective and note gaps."

\* Mutant of deriveActions: the checkpoint rule asks for no save at all.
deriveActionsNoSave(stats) ==
  LET focusFiles == selectRepresentativeFiles(stats.files)
      walk == IF Len(focusFiles) > 0 THEN <<ActionWalk>> ELSE <<>>
      sync == IF Len(stats.languages) > 1 THEN <<ActionSync>> ELSE <<>>
      checkpoint == IF stats.changeCount > 8 /\ stats.saveCount < 1
                    THEN <<ActionCheckpoint>> ELSE <<>>
      actions == walk \o sync \o checkpoint
  IN IF Len(actions) = 0 THEN <<ActionEvaluate>> ELSE actions

deriveActions(stats) ==
  LET focusFiles == selectRepresentativeFiles(stats.files)
      walk == IF Len(focusFiles) > 0 THEN <<ActionWalk>> ELSE <<>>
      sync == IF Len(stats.languages) > 1 THEN <<ActionSync>> ELSE <<>>
      checkpoint == IF stats.changeCount > 8 /\ stats.saveCount < 2
                    THEN <<ActionCheckpoint>> ELSE <<>>
      actions == walk \o sync \o checkpoint
  IN IF Len(actions) = 0 THEN <<ActionEvaluate>> ELSE actions

estimateConfidence(fallbackConfidenceBase, changeCount, saveCount) ==
  LET modifier == Min(350, (changeCount + saveCount) * 30)
  IN Min(900, ToFixed2(fallbackConfidenceBase + modifier))

\* Thrown values: an Error object carries its message in text.
JsError(message) == [type |-> "error", milli |-> 0, text |-> message]
NoError == [type |-> "none", milli |-> 0, text |-> ""]

\* JavaScript truthiness of a value (if (metadata.error)).
Truthy(value) ==
  CASE value.type = "none" -> FALSE
    [] value.type = "undefined" -> FALSE
    [] value.type = "null" -> FALSE
    [] value.type = "string" -> value.text # ""
    [] value.type = "number" -> value.milli # 0
    [] OTHER -> TRUE

\* error instanceof Error ? error.message : String(error)
ErrorText(error) == IF error.type = "error" THEN error.text ELSE JsToString(error)

HeuristicErrorMessage(error) == IF Truthy(error) THEN ErrorText(error) ELSE ABSENT

\* HeuristicAnalyzer.analyze; the summary text is not taken apart by any
\* reader and is kept as a tag.
HeuristicAnalyze(fallbackConfidenceBase, stats, source, error) ==
  [summary |-> "heuristic summary",
   confidence |-> estimateConfidence(fallbackConfidenceBase, stats.changeCount, stats.saveCount),
   actions |-> deriveActions(stats),
   source |-> source,
   errorMessage |-> HeuristicErrorMessage(error)]

(***************************************************************************)
(* The LM Studio analyzer (LmStudioAnalyzer).                              *)
(***************************************************************************)
\* The response text as segments: "text" holds no brace, "object" is the
\* text of one JSON object (payload), "garbage" is brace-delimited text that
\* is no JSON, "open" and "close" are a lone { and a lone }.
NoPayload == [summary |-> JsUndefined, confidence |-> JsUndefined,
              isArray |-> FALSE, actions |-> <<>>, reasoning |-> JsUndefined]
Segment(kind) == [kind |-> kind, payload |-> NoPayload]
Object(payload) == [kind |-> "object", payload |-> payload]

HasOpenBrace(segment) == segment.kind \in {"object", "garbage", "open"}
HasCloseBrace(segment) == segment.kind \in {"object", "garbage", "close"}

\* trimmed.match(/\{[\s\S]*\}/): greedy, from the first { to the last }.
JsonMatch(raw) ==
  LET opens == {i \in 1..Len(raw) : HasOpenBrace(raw[i])}
      first == CHOOSE i \in opens : \A j \in opens : i <= j
      closes == {i \in 1..Len(raw) : HasCloseBrace(raw[i]) /\ i >= first}
      last == CHOOSE i \in closes : \A j \in closes : i >= j
  IN IF opens = {} THEN [found |-> FALSE, span |-> <<>>]
     ELSE IF closes = {} THEN [found |-> FALSE, span |-> <<>>]
     ELSE [found |-> TRUE, span |-> SubSeq(raw, first, last)]

\* JSON.parse of a matched span succeeds when the span is one JSON object.
JsonParses(span) == Len(span) = 1 /\ span[1].kind = "object"

\* Mutant of normalizeConfidence: the upper clamp is forgotten.
normalizeConfidenceUnclamped(value) ==
  LET numeric == ToNumber(value)
  IN IF numeric.finite THEN ToFixed2(Max(50, numeric.milli)) ELSE 700

normalizeConfidence(value) ==
  LET numeric == ToNumber(value)
  IN IF numeric.finite THEN ToFixed2(Min(990, Max(50, numeric.milli))) ELSE 700

ActionText(item) == IF item.type = "string" THEN Trim(item.text) ELSE JsToString(item)
NonEmptyText(text) == text # ""

\* Mutant of NormalizeActions: the slice(0, 4) is forgotten.
NormalizeActionsUncapped(payload) ==
  IF payload.isArray
  THEN SelectSeq([i \in 1..Len(payload.actions) |-> ActionText(payload.actions[i])],
                 NonEmptyText)
  ELSE <<>>

NormalizeActions(payload) ==
  IF payload.isArray
  THEN SliceHead(SelectSeq([i \in 1..Len(payload.actions) |-> ActionText(payload.actions[i])],
                           NonEmptyText), 4)
  ELSE <<>>

\* Mutant of SummaryOk: only the presence of the field is tested.
SummaryPresent(summary) == summary.type # "undefined"

\* payload.summary is a non-empty string (lines 443-445).
SummaryOk(summary) == summary.type = "string" /\ summary.text # ""

ParseFailure(message) ==
  [ok |-> FALSE, error |-> JsError(message), summary |-> "", confidence |-> 0,
   actions |-> <<>>]

parseHarmonyResponse(raw) ==
  LET jsonMatch == JsonMatch(raw)
      payload == jsonMatch.span[1].payload
  IN CASE ~jsonMatch.found ->
            ParseFailure("LM Studio response is missing the expected JSON payload.")
       [] jsonMatch.found /\ ~JsonParses(jsonMatch.span) ->
            ParseFailure("LM Studio response contained invalid JSON")
       [] OTHER ->
            IF ~SummaryOk(payload.summary)
            THEN ParseFailure("LM Studio response must include a textual \"summary\" field.")
            ELSE IF payload.reasoning.type \notin {"string", "undefined", "null"}
            THEN ParseFailure("payload.reasoning.trim is not a function")
            ELSE [ok |-> TRUE, error |-> NoError,
                  summary |-> Trim(payload.summary.text),
                  confidence |-> normalizeConfidence(payload.confidence),
                  actions |-> NormalizeActions(payload)]

ActionReview == "Schedule a focused review session for the most active files."
ActionPersist == "Persist work-in-progress to create recovery points."
ActionObjective == "Evaluate whether current changes reinforce the objective."

\* Mutant of fallbackActions: the heuristic analyzer's checkpoint rule.
fallbackActionsAsHeuristic(changeCount, saveCount) ==
  IF changeCount > 8 /\ saveCount < 2 THEN <<ActionReview>> ELSE <<ActionObjective>>

\* The objective named in the generic action is not modelled (objectives[0]
\* or a default text).
fallbackActions(changeCount, saveCount) ==
  LET review == IF changeCount > 6 THEN <<ActionReview>> ELSE <<>>
      persist == IF saveCount = 0 THEN <<ActionPersist>> ELSE <<>>
      actions == review \o persist
  IN IF Len(actions) = 0 THEN <<ActionObjective>> ELSE actions

\* LmStudioAnalyzer.analyze once client.chat has settled: outcome is the
\* settled promise, [resolved, response, error].  The result is the insight
\* or the error the analyzer throws.
LmStudioAnalyze(stats, outcome) ==
  LET parsed == parseHarmonyResponse(outcome.response)
  IN CASE ~outcome.resolved -> [ok |-> FALSE, error |-> outcome.error]
       [] outcome.resolved /\ ~parsed.ok -> [ok |-> FALSE, error |-> parsed.error]
       [] OTHER ->
            [ok |-> TRUE, error |-> NoError,
             insight |-> [summary |-> parsed.summary,
                          confidence |-> parsed.confidence,
                          actions |-> IF Len(parsed.actions) > 0 THEN parsed.actions
                                      ELSE fallbackActions(stats.changeCount, stats.saveCount),
                          source |-> "lmstudio",
                          errorMessage |-> ABSENT]]

(***************************************************************************)
(* Inputs: requests, client outcomes, configurations.                      *)
(***************************************************************************)
\* A batch of c changes to FileA followed by s saves; with spread the saves
\* are of FileB, in a second language.  Timestamps are the receipt order.
Batch(c, s, spread) ==
  [i \in 1..(c + s) |->
     IF i <= c THEN Event("documentChange", FileA, "typescript", i)
     ELSE IF spread THEN Event("documentSave", FileB, "markdown", i)
     ELSE Event("documentSave", FileA, "typescript", i)]

ManualEvent == Event("analysisRequest", ManualUri, "", 5)
StaleEvent == Event("documentOpen", FileA, "typescript", DateRangeLimit + 1)

EventBatches ==
  {Batch(c, 0, FALSE) : c \in {0, 7, 9, 12}}
    \cup {Batch(c, 2, spread) : c \in {0, 7, 9, 12}, spread \in BOOLEAN}
    \cup {<<ManualEvent>>, <<StaleEvent>>, <<StaleEvent>> \o Batch(1, 2, FALSE)}

ObjectiveLists == {<<>>, <<"Protect module boundaries", "Protect shared services">>}

Requests ==
  {[events |-> b, objectives |-> <<"Protect module boundaries">>,
    reason |-> IF b = <<ManualEvent>> THEN "manual" ELSE "autosave"] : b \in EventBatches}

NoRequest == [events |-> <<>>, objectives |-> <<>>, reason |-> ""]
NoStats == buildActivityStats(NoRequest, 1)

\* Payloads: the one of the engine's test, varied one field at a time.
Payload(summary, confidence, isArray, actions, reasoning) ==
  [summary |-> summary, confidence |-> confidence, isArray |-> isArray,
   actions |-> actions, reasoning |-> reasoning]

GoodSummary == JsString("Strategic focus confirmed.")
GoodAction == JsString("Double-check recent refactors.")

ConfidenceValues ==
  {JsNumber(820), JsNumber(5000), JsNumber(-200), JsNumber(0), JsNumber(49), JsNumber(555),
   JsNumber(994), JsString("abc"), JsString("0.5"), JsUndefined, JsNull, JsInfinity}

ActionItems == {GoodAction, JsString(" "), JsString(" Pause and review. "), JsNumber(7000),
                JsEmptyArray}

\* Up to MaxPayloadActions copies of the good action, each item alone, and
\* each item before and after MaxPayloadActions - 1 copies of the good action.
ActionLists ==
  {Repeat(GoodAction, n) : n \in 0..MaxPayloadActions}
    \cup {<<item>> : item \in ActionItems}
    \cup {<<item>> \o Repeat(GoodAction, MaxPayloadActions - 1) : item \in ActionItems}
    \cup {Repeat(GoodAction, MaxPayloadActions - 1) \o <<item>> : item \in ActionItems}

Payloads ==
  {Payload(GoodSummary, c, TRUE, <<GoodAction>>, JsUndefined) : c \in ConfidenceValues}
    \cup {Payload(GoodSummary, JsNumber(820), TRUE, a, JsString("why")) : a \in ActionLists}
    \cup {Payload(s, JsNumber(820), FALSE, <<>>, JsUndefined) :
            s \in {GoodSummary, JsString(""), JsUndefined, JsNumber(7000)}}
    \cup {Payload(GoodSummary, JsNumber(820), TRUE, <<>>, r) : r \in {JsNull, JsNumber(7000)}}

BasePayload == Payload(GoodSummary, JsNumber(820), TRUE, <<GoodAction>>, JsUndefined)

Responses ==
  {<<Object(p)>> : p \in Payloads}
    \cup {<<>>, <<Segment("text")>>, <<Segment("garbage")>>, <<Segment("open")>>,
          <<Segment("close"), Segment("open")>>,
          <<Segment("text"), Object(BasePayload), Segment("text")>>,
          <<Object(BasePayload), Segment("text"), Segment("close")>>,
          <<Object(BasePayload), Object(BasePayload)>>}

\* What a client can throw: Error objects (the CLI failure, the timeout, the
\* empty response of LmStudioClient.chat) and any other value of a stub.
ThrownValues ==
  {JsError("simulated failure"), JsError("LM Studio CLI command failed: timed out"),
   JsError("LM Studio returned an empty response."), JsError(""), JsString("boom"),
   JsString(""), JsUndefined, JsNull, JsNumber(0)}

Resolved(response) == [resolved |-> TRUE, response |-> response, error |-> NoError]
Rejected(error) == [resolved |-> FALSE, response |-> <<>>, error |-> error]

Outcomes == {Resolved(r) : r \in Responses} \cup {Rejected(e) : e \in ThrownValues}

\* AnalysisEngineOptions: maxEventsInPrompt and fallbackConfidenceBase.
Configs ==
  {[maxEventsInPrompt |-> 12, fallbackConfidenceBase |-> 550],
   [maxEventsInPrompt |-> 2, fallbackConfidenceBase |-> 555],
   [maxEventsInPrompt |-> 12, fallbackConfidenceBase |-> 0],
   [maxEventsInPrompt |-> 0, fallbackConfidenceBase |-> 800]}

Clients == 1..NumClients
NoClient == 0

(***************************************************************************)
(* The state.                                                              *)
(***************************************************************************)
VARIABLES
  config,            \* AnalysisEngine: maxEventsInPrompt, fallbackConfidenceBase
  objectives,        \* AnalysisEngine.objectives (shared with the fallback analyzer)
  systemPrompt,      \* AnalysisEngine.systemPrompt, ABSENT when undefined
  logger,            \* AnalysisEngine.logger, ABSENT when undefined
  lmStudioAnalyzer,  \* the client the attached analyzer wraps, NoClient for null
  lmStudioHealthy,   \* AnalysisEngine.lmStudioHealthy
  chatCalls,         \* calls of client.chat so far (the stub's prompts.length)
  run,               \* the run() call in progress or last finished
  result,            \* what the last finished run() returned
  failedSinceAttach  \* a run() has caught a failure since the last attach

engineVars == <<config, objectives, systemPrompt, logger, lmStudioAnalyzer,
                lmStudioHealthy, chatCalls, run, result, failedSinceAttach>>

NoInsight == [summary |-> "", confidence |-> 0, actions |-> <<>>, source |-> "",
              errorMessage |-> ABSENT]

\* A run(): where it stands, its digest while the chat call is pending, the
\* engine's state when it was called, the chat calls it made and the error
\* its catch block received.
Run(pc, stats, analyzer, healthy, latched, chats, error) ==
  [pc |-> pc, stats |-> stats, callAnalyzer |-> analyzer, callHealthy |-> healthy,
   callLatched |-> latched, chats |-> chats, error |-> error]

IdleRun == Run("idle", NoStats, NoClient, FALSE, FALSE, 0, NoError)

\* The constructor: no analyzer and unhealthy, then attach when a client is given.
EngineInit ==
  /\ config \in Configs
  /\ objectives \in ObjectiveLists
  /\ systemPrompt \in {ABSENT, "Be brief."}
  /\ logger \in {ABSENT, "output channel"}
  /\ lmStudioAnalyzer \in {NoClient} \cup Clients
  /\ lmStudioHealthy = (lmStudioAnalyzer # NoClient)
  /\ chatCalls = 0
  /\ run = IdleRun
  /\ result = NoInsight
  /\ failedSinceAttach = FALSE

(***************************************************************************)
(* AnalysisEngine's operations.                                            *)
(***************************************************************************)
UpdateObjectives(list) ==
  /\ objectives' = list
  /\ UNCHANGED <<config, systemPrompt, logger, lmStudioAnalyzer, lmStudioHealthy,
                 chatCalls, run, result, failedSinceAttach>>

\* Mutant of UpdateSystemPrompt: the analyzer is rebuilt with the new prompt
\* through attachLmStudioClient, which marks the engine healthy.
UpdateSystemPromptReattaching(prompt) ==
  /\ systemPrompt' = IF prompt = ABSENT \/ Trim(prompt) = "" THEN ABSENT ELSE Trim(prompt)
  /\ lmStudioHealthy' = (lmStudioAnalyzer # NoClient)
  /\ failedSinceAttach' = (failedSinceAttach /\ lmStudioAnalyzer = NoClient)
  /\ UNCHANGED <<config, objectives, logger, lmStudioAnalyzer, chatCalls, run, result>>

\* prompt?.trim() || undefined: a blank prompt is undefined.
UpdateSystemPrompt(prompt) ==
  /\ systemPrompt' = IF prompt = ABSENT \/ Trim(prompt) = "" THEN ABSENT ELSE Trim(prompt)
  /\ UNCHANGED <<config, objectives, logger, lmStudioAnalyzer, lmStudioHealthy,
                 chatCalls, run, result, failedSinceAttach>>

UpdateLogger(next) ==
  /\ logger' = next
  /\ UNCHANGED <<config, objectives, systemPrompt, lmStudioAnalyzer, lmStudioHealthy,
                 chatCalls, run, result, failedSinceAttach>>

attachLmStudioClient(client) ==
  /\ lmStudioAnalyzer' = client
  /\ lmStudioHealthy' = TRUE
  /\ failedSinceAttach' = FALSE

\* Mutant of detachLmStudioClient: the health flag is left as it is.
detachLmStudioClientKeepingHealth ==
  /\ lmStudioAnalyzer' = NoClient
  /\ UNCHANGED <<lmStudioHealthy, failedSinceAttach>>

detachLmStudioClient ==
  /\ lmStudioAnalyzer' = NoClient
  /\ lmStudioHealthy' = FALSE
  /\ UNCHANGED failedSinceAttach

UpdateLmStudioClient(client) ==
  /\ IF client # NoClient THEN attachLmStudioClient(client) ELSE detachLmStudioClient
  /\ UNCHANGED <<config, objectives, systemPrompt, logger, chatCalls, run, result>>

\* Mutant of FallbackSource: the two tags are swapped.
FallbackSourceSwapped(analyzer) ==
  IF analyzer # NoClient THEN "local-fallback" ELSE "lmstudio-fallback"

\* The source of a fallback insight made without an error (run, line 97).
FallbackSource(analyzer) == IF analyzer # NoClient THEN "lmstudio-fallback" ELSE "local-fallback"

\* Mutant of UsesLmStudio: the health flag is not consulted.
UsesLmStudioIgnoringHealth(analyzer, healthy) == analyzer # NoClient

\* run() takes the LM Studio path (line 79).
UsesLmStudio(analyzer, healthy) == analyzer # NoClient /\ healthy

\* run() up to its first await: the digest, then either the chat call is
\* issued or the fallback insight is returned.  A throw of the digest builder
\* is outside the try block and rejects the call.
RunStart(request) ==
  LET stats == buildActivityStats(request, config.maxEventsInPrompt)
  IN /\ run.pc # "awaiting"
     /\ IF stats.threw
        THEN /\ run' = Run("rejected", NoStats, lmStudioAnalyzer, lmStudioHealthy,
                           failedSinceAttach, 0, NoError)
             /\ result' = NoInsight
             /\ UNCHANGED chatCalls
        ELSE IF UsesLmStudio(lmStudioAnalyzer, lmStudioHealthy)
        THEN /\ chatCalls < MaxChatCalls
             /\ chatCalls' = chatCalls + 1
             /\ run' = Run("awaiting", stats, lmStudioAnalyzer, lmStudioHealthy,
                           failedSinceAttach, 1, NoError)
             /\ result' = NoInsight
        ELSE /\ run' = Run("returned", NoStats, lmStudioAnalyzer, lmStudioHealthy,
                           failedSinceAttach, 0, NoError)
             /\ result' = HeuristicAnalyze(config.fallbackConfidenceBase, stats,
                                           FallbackSource(lmStudioAnalyzer), NoError)
             /\ UNCHANGED chatCalls
     /\ UNCHANGED <<config, objectives, systemPrompt, logger, lmStudioAnalyzer,
                    lmStudioHealthy, failedSinceAttach>>

\* Mutant of HealthAfterFailure: the catch block leaves the flag alone.
HealthAfterFailureKept == lmStudioHealthy

\* The health flag after the catch block (line 84).
HealthAfterFailure == FALSE

\* run() from the settling of client.chat: the analyzer's insight, or the
\* catch block (mark unhealthy, fall back with the error).
ChatSettle(outcome) ==
  LET stats == run.stats
      analysis == LmStudioAnalyze(stats, outcome)
  IN /\ run.pc = "awaiting"
     /\ IF analysis.ok
        THEN /\ result' = analysis.insight
             /\ run' = [run EXCEPT !.pc = "returned", !.stats = NoStats]
             /\ UNCHANGED <<lmStudioHealthy, failedSinceAttach>>
        ELSE /\ lmStudioHealthy' = HealthAfterFailure
             /\ failedSinceAttach' = TRUE
             /\ result' = HeuristicAnalyze(config.fallbackConfidenceBase, stats,
                                           "lmstudio-fallback", analysis.error)
             /\ run' = [run EXCEPT !.pc = "returned", !.stats = NoStats,
                                   !.error = analysis.error]
     /\ UNCHANGED <<config, objectives, systemPrompt, logger, lmStudioAnalyzer, chatCalls>>

(***************************************************************************)
(* The InsightStore (insightStore.ts, the version with storage).           *)
(***************************************************************************)
\* The dot-separated parts and the lower-cased text of the file names of
\* the model.
NameParts(name) ==
  CASE name = "example.ts" -> <<"example", "ts">>
    [] name = "file.ts" -> <<"file", "ts">>
    [] name = "notes.md" -> <<"notes", "md">>
    [] name = "README.MD" -> <<"README", "MD">>
    [] name = ".gitignore" -> <<"", "gitignore">>
    [] OTHER -> <<name>>

toLowerCase(text) ==
  CASE text = "MD" -> "md"
    [] text = "README.MD" -> "readme.md"
    [] text = "Makefile" -> "makefile"
    [] OTHER -> text

\* The order of localeCompare on the extensions of the model.
AlphabetRank(text) ==
  CASE text = ".gitignore" -> 1
    [] text = "makefile" -> 2
    [] text = "manual" -> 3
    [] text = "md" -> 4
    [] text = "ts" -> 5
    [] OTHER -> 6

\* Mutant of StoreExtractFileName: segments.shift() for segments.pop().
StoreExtractFileNameFirst(uri) ==
  LET candidate == IF uri.segments = <<>> THEN "" ELSE uri.segments[1]
  IN CASE candidate = "" -> ABSENT
       [] DecodeThrows(candidate) -> candidate
       [] OTHER -> decodeURIComponent(candidate)

\* InsightStore.extractFileName: the last path segment, decoded; no scheme test.
StoreExtractFileName(uri) ==
  LET candidate == IF uri.segments = <<>> THEN "" ELSE uri.segments[Len(uri.segments)]
  IN CASE candidate = "" -> ABSENT
       [] DecodeThrows(candidate) -> candidate
       [] OTHER -> decodeURIComponent(candidate)

extractExtension(uri) ==
  LET name == StoreExtractFileName(uri)
      parts == NameParts(name)
      dotAtStartOnly == Len(parts) = 2 /\ parts[1] = ""
      dotAtEnd == Len(parts) > 1 /\ parts[Len(parts)] = ""
  IN IF name = ABSENT THEN ABSENT
     ELSE IF Len(parts) = 1 \/ dotAtStartOnly \/ dotAtEnd THEN toLowerCase(name)
     ELSE toLowerCase(parts[Len(parts)])

\* The number of entries of files with the extension.
ExtensionCount(files, ext) == Cardinality({i \in 1..Len(files) : extractExtension(files[i]) = ext})

RECURSIVE SortExtensionsAlphabetical(_, _)
\* Mutant of SortExtensions: the counts are not compared.
SortExtensionsAlphabetical(exts, files) ==
  IF exts = {} THEN <<>>
  ELSE LET first == CHOOSE e \in exts : \A f \in exts : AlphabetRank(e) <= AlphabetRank(f)
       IN <<first>> \o SortExtensionsAlphabetical(exts \ {first}, files)

RECURSIVE SortExtensions(_, _)
\* sort((a, b) => b[1] - a[1] || a[0].localeCompare(b[0])): most frequent
\* first, ties in alphabetical order.
SortExtensions(exts, files) ==
  IF exts = {} THEN <<>>
  ELSE LET first == CHOOSE e \in exts : \A f \in exts :
                      \/ ExtensionCount(files, e) > ExtensionCount(files, f)
                      \/ /\ ExtensionCount(files, e) = ExtensionCount(files, f)
                         /\ AlphabetRank(e) <= AlphabetRank(f)
       IN <<first>> \o SortExtensions(exts \ {first}, files)

extractFileExtensions(files) ==
  SortExtensions({extractExtension(files[i]) : i \in 1..Len(files)} \ {ABSENT}, files)

\* The metadata of an insight.  files is an array of URIs, as the analyzers
\* write it, unless filesIsArray is FALSE: then it is one string, kept as
\* the only element.
Metadata(source, files, languages, changeCount, saveCount, reason, rawResponse) ==
  [source |-> source, files |-> files, filesIsArray |-> TRUE, languages |-> languages,
   changeCount |-> changeCount, saveCount |-> saveCount, reason |-> reason,
   rawResponse |-> rawResponse]

StoredInsight(id, timestamp, metadata) ==
  [id |-> id, summary |-> "Summary", confidence |-> 750,
   actions |-> <<"Review key changes">>, timestamp |-> timestamp, metadata |-> metadata]

ExampleTs == Uri("file", <<"workspace", "example.ts">>, "")
ExampleTsHashed == Uri("file", <<"workspace", "path", "to", "example.ts">>, "hash=123")
ReadmeMd == Uri("file", <<"workspace", "README.MD">>, "")

\* The insights given to setLatest: those of the store's tests.
InsightPool ==
  <<StoredInsight("first", 1,
                  Metadata("local-fallback", <<ExampleTs>>, <<"typescript">>, 4, 1,
                           "autosave", ABSENT)),
    StoredInsight("second", 2,
                  Metadata("lmstudio", <<ExampleTsHashed, ReadmeMd, FileB>>,
                           <<"typescript", "markdown">>, 5, 2, "manual", "{\"noisy\":true}")),
    StoredInsight("third", 3,
                  Metadata("lmstudio-fallback", <<>>, <<>>, 0, 0, "autosave", ABSENT)),
    StoredInsight("fourth", 4,
                  Metadata("local-fallback", <<ManualUri>>, <<>>, 0, 0, "manual", ABSENT))>>

StoreInsights == {InsightPool[i] : i \in 1..Min(NumInsights, Len(InsightPool))}

\* cloneInsight: a copy with its own actions array and a JSON round trip of
\* the metadata; on the values of the model the copy equals the original.
cloneInsight(insight) ==
  [id |-> insight.id, summary |-> insight.summary, confidence |-> insight.confidence,
   actions |-> [i \in 1..Len(insight.actions) |-> insight.actions[i]],
   timestamp |-> insight.timestamp, metadata |-> insight.metadata]

TelemetryOf(insight) ==
  [timestamp |-> insight.timestamp,
   languageCount |-> Len(insight.metadata.languages),
   fileExtensions |-> extractFileExtensions(IF insight.metadata.filesIsArray
                                            THEN insight.metadata.files ELSE <<>>),
   changeCount |-> insight.metadata.changeCount,
   saveCount |-> insight.metadata.saveCount,
   confidence |-> insight.confidence,
   reason |-> insight.metadata.reason,
   source |-> insight.metadata.source]

\* list.unshift(item)
Unshift(list, item) == <<item>> \o list

\* Mutant of Truncate: the oldest entries are kept.
TruncateFromFront(list, cap) ==
  IF Len(list) > cap THEN SubSeq(list, Len(list) - cap + 1, Len(list)) ELSE list

\* if (list.length > cap) list.length = cap
Truncate(list, cap) == IF Len(list) > cap THEN SubSeq(list, 1, cap) ELSE list

StoreConfigs ==
  [maxHistoryItems : 0..MaxCap, maxTelemetryItems : {0, 1, MaxCap}, hasStorage : BOOLEAN]

NoLatest == StoredInsight(ABSENT, 0, Metadata("", <<>>, <<>>, 0, 0, "", ABSENT))

(***************************************************************************)
(* What storage holds: values of unknown shape under the two keys.         *)
(***************************************************************************)
MaxStored == 3
MaxRestoreInserts == 2

\* A whole number as a JavaScript value (timestamps, counts).
JsInteger(n) == JsNumber(n * 1000)

\* An entry of the list under the history key: the five fields the shape
\* check reads are JavaScript values, actions an array or not.
Candidate(isObject, id, summary, confidence, timestamp, isArray, actions, metadata) ==
  [isObject |-> isObject, id |-> id, summary |-> summary, confidence |-> confidence,
   timestamp |-> timestamp, isArray |-> isArray, actions |-> actions, metadata |-> metadata]

\* Mutant of StoredForm: the confidence is written as text.
StoredFormConfidenceAsText(insight) ==
  Candidate(TRUE, JsString(insight.id), JsString(insight.summary),
            JsString("0.75"), JsInteger(insight.timestamp), TRUE,
            [i \in 1..Len(insight.actions) |-> JsString(insight.actions[i])],
            insight.metadata)

\* persistHistory: the object storage.update receives for an insight.
StoredForm(insight) ==
  Candidate(TRUE, JsString(insight.id), JsString(insight.summary),
            JsNumber(insight.confidence), JsInteger(insight.timestamp), TRUE,
            [i \in 1..Len(insight.actions) |-> JsString(insight.actions[i])],
            insight.metadata)

\* Mutant of StoredList: the list is written oldest first.
StoredListOldestFirst(list) == [i \in 1..Len(list) |-> StoredForm(list[Len(list) + 1 - i])]

\* payload.map((item) => this.cloneInsight(item)): the list in its order.
StoredList(list) == [i \in 1..Len(list) |-> StoredForm(list[i])]

\* Mutant of isInsightLike: the summary is not looked at.
isInsightLikeWithoutSummary(value) ==
  /\ value.isObject
  /\ value.id.type = "string"
  /\ value.confidence.type = "number"
  /\ value.timestamp.type = "number"
  /\ value.isArray

isInsightLike(value) ==
  /\ value.isObject
  /\ value.id.type = "string"
  /\ value.summary.type = "string"
  /\ value.confidence.type = "number"
  /\ value.timestamp.type = "number"
  /\ value.isArray

\* String(id), String(summary), Number(confidence), Number(timestamp),
\* actions.map(String), a copy of the metadata.
normalizeStoredInsight(candidate) ==
  [id |-> JsToString(candidate.id),
   summary |-> JsToString(candidate.summary),
   confidence |-> ToNumber(candidate.confidence).milli,
   actions |-> IF candidate.isArray
               THEN [i \in 1..Len(candidate.actions) |-> JsToString(candidate.actions[i])]
               ELSE <<>>,
   timestamp |-> ToNumber(candidate.timestamp).milli \div 1000,
   metadata |-> candidate.metadata]

\* Mutant of restoreFromStorage: the slice is forgotten.
restoreFromStorageWhole(payload, maxHistoryItems) ==
  LET liked == SelectSeq(payload, isInsightLike)
  IN [i \in 1..Len(liked) |-> normalizeStoredInsight(liked[i])]

\* restoreFromStorage: filter by shape, normalize, slice(0, maxHistoryItems).
restoreFromStorage(payload, maxHistoryItems) ==
  LET liked == SelectSeq(payload, isInsightLike)
  IN SliceHead([i \in 1..Len(liked) |-> normalizeStoredInsight(liked[i])], maxHistoryItems)

\* An entry of the list under the telemetry key: the three fields the shape
\* check reads, and the snapshot they belong to.
TelemetryCandidate(isObject, timestamp, languageCount, isArray, snapshot) ==
  [isObject |-> isObject, timestamp |-> timestamp, languageCount |-> languageCount,
   isArray |-> isArray, snapshot |-> snapshot]

\* persistTelemetry: the object storage.update receives for a snapshot.
StoredTelemetry(snapshot) ==
  TelemetryCandidate(TRUE, JsInteger(snapshot.timestamp), JsInteger(snapshot.languageCount),
                     TRUE, snapshot)

StoredTelemetryList(list) == [i \in 1..Len(list) |-> StoredTelemetry(list[i])]

isTelemetrySnapshot(value) ==
  /\ value.isObject
  /\ value.timestamp.type = "number"
  /\ value.languageCount.type = "number"
  /\ value.isArray

normalizeTelemetry(candidate) ==
  [candidate.snapshot EXCEPT
     !.timestamp = ToNumber(candidate.timestamp).milli \div 1000,
     !.languageCount = ToNumber(candidate.languageCount).milli \div 1000,
     !.fileExtensions = IF candidate.isArray THEN @ ELSE <<>>]

\* restoreTelemetry: filter by shape, normalize, slice(0, maxTelemetryItems).
restoreTelemetry(payload, maxTelemetryItems) ==
  LET liked == SelectSeq(payload, isTelemetrySnapshot)
  IN SliceHead([i \in 1..Len(liked) |-> normalizeTelemetry(liked[i])], maxTelemetryItems)

\* Entries a shape check has to judge: a well-formed insight with one field
\* missing or wrongly typed, a null entry, and an entry that passes the check
\* with action items that are no strings.
Restored == StoredForm(StoredInsight("restored", 1,
                         Metadata("local-fallback", <<ExampleTs>>, <<"typescript">>, 4, 1,
                                  "autosave", ABSENT)))
Older == StoredForm(StoredInsight("older", 0,
                      Metadata("lmstudio", <<ReadmeMd>>, <<"markdown">>, 1, 0, "manual",
                               ABSENT)))
MalformedEntries ==
  {[Restored EXCEPT !.summary = JsUndefined],
   [Restored EXCEPT !.id = JsNumber(7000)],
   [Restored EXCEPT !.confidence = JsString("0.5")],
   [Restored EXCEPT !.timestamp = JsNull],
   [Restored EXCEPT !.isArray = FALSE, !.actions = <<>>],
   [Restored EXCEPT !.isObject = FALSE]}
CoercedEntry == [Restored EXCEPT !.id = JsString("coerced"), !.actions = <<JsNumber(7000), JsNull>>]

\* Lists found under the history key: empty, the stored list of the tests,
\* an entry without summary and a coerced entry alone, each malformed or
\* coerced entry between well-formed ones, and
\* lists of up to MaxStored well-formed entries.
StoredHistories ==
  {<<>>, <<Restored>>}
    \cup {<<[Restored EXCEPT !.summary = JsUndefined]>>, <<CoercedEntry>>}
    \cup {<<Restored, bad, Older>> : bad \in MalformedEntries \cup {CoercedEntry}}
    \cup {[i \in 1..n |-> IF i % 2 = 1 THEN Restored ELSE Older] : n \in 2..MaxStored}

StoredSnapshot == StoredTelemetry(TelemetryOf(normalizeStoredInsight(Restored)))
StoredTelemetries ==
  {<<>>,
   <<[StoredSnapshot EXCEPT !.languageCount = JsString("abc")]>>,
   <<StoredSnapshot, [StoredSnapshot EXCEPT !.isObject = FALSE]>> \o
     [i \in 1..(MaxStored - 1) |-> StoredSnapshot]}

\* What is found in storage at construction: a history list with no
\* telemetry, or the stored list of the tests with a telemetry list.
StoredStates ==
  {[history |-> h, telemetry |-> <<>>] : h \in StoredHistories}
    \cup {[history |-> <<Restored>>, telemetry |-> t] : t \in StoredTelemetries}

(***************************************************************************)
(* Object identity.  An array or object is named by the place that made    *)
(* it: "caller" (the argument of setLatest), "store" (made by the store    *)
(* for its own lists), "reply" (made for a return value), "notified" (made *)
(* for a change notification), "written" (made for storage.update),        *)
(* "storage" (found in storage).                                           *)
(***************************************************************************)
InsightRefs(site) == [actions |-> site, metadata |-> site]

\* Mutant of cloneRefs: the actions array is not copied.
cloneRefsSharingActions(original, site) == [actions |-> original.actions, metadata |-> site]

\* cloneInsight: a new actions array and a new metadata object.
cloneRefs(original, site) == InsightRefs(site)

CloneAll(list, site) == [i \in 1..Len(list) |-> cloneRefs(list[i], site)]

\* { ...item, fileExtensions: [...item.fileExtensions] } for each snapshot.
CopyExtensions(list, site) == [i \in 1..Len(list) |-> site]

SitesOf(list) == {list[i].actions : i \in 1..Len(list)} \cup {list[i].metadata : i \in 1..Len(list)}

\* What a caller's write to an object of the site does to an insight, a
\* stored entry or a snapshot made of objects of that site.
Touch(insight, held, site) ==
  [insight EXCEPT !.actions = IF held.actions = site THEN <<"mutated">> ELSE @,
                  !.metadata = IF held.metadata = site THEN [@ EXCEPT !.reason = "mutated"]
                               ELSE @]
TouchStored(entry, held, site) ==
  [entry EXCEPT !.actions = IF held.actions = site THEN <<JsString("mutated")>> ELSE @,
                !.metadata = IF held.metadata = site THEN [@ EXCEPT !.reason = "mutated"]
                             ELSE @]
TouchSnapshot(snapshot, held, site) ==
  IF held = site THEN [snapshot EXCEPT !.fileExtensions = <<"mutated">>] ELSE snapshot

VARIABLES
  storeConfig,       \* InsightStoreOptions: the two caps, storage attached or not
  history,           \* InsightStore.history, most recent first
  latest,            \* InsightStore.latest, NoLatest when undefined
  telemetryHistory,  \* InsightStore.telemetryHistory
  storage,           \* the Memento: the lists under the history and telemetry keys
  clearing,          \* a clearHistory call is awaiting its storage writes
  fired,             \* the payload of the last change notification, if any
  inserted,          \* the insights given to setLatest since the store was last empty
  heldAtFire,        \* the history the store held when it last fired
  lastWrites,        \* per key: the write the last mutation issued was applied
  clearCall,         \* the last clearHistory call: where it is or how it ended
  refs,              \* the identities of the objects held by the store, by
                     \* storage and by callers, and the sites callers wrote to
  exported           \* the last getExportSnapshot result and the history it read

storeVars == <<storeConfig, history, latest, telemetryHistory, storage, clearing, fired,
               inserted, heldAtFire, lastWrites, clearCall, refs, exported>>

getHistory == [i \in 1..Len(history) |-> cloneInsight(history[i])]
getLatest == IF latest = NoLatest THEN NoLatest ELSE cloneInsight(latest)
getHistoryCount == Len(history)
getTelemetryHistory == telemetryHistory

NotFired == [any |-> FALSE, history |-> <<>>]
Fired(payload) == [any |-> TRUE, history |-> payload]

Applied == [history |-> TRUE, telemetry |-> TRUE]
Refused == [history |-> FALSE, telemetry |-> FALSE]
NotExported == [any |-> FALSE, from |-> <<>>, insights |-> <<>>, telemetry |-> <<>>]

\* The constructor: with storage, restore both lists from what it holds.
Constructed(stored) ==
  /\ storeConfig \in StoreConfigs
  /\ storage = stored
  /\ history = IF storeConfig.hasStorage
               THEN restoreFromStorage(stored.history, storeConfig.maxHistoryItems)
               ELSE <<>>
  /\ latest = IF history = <<>> THEN NoLatest ELSE history[1]
  /\ telemetryHistory = IF storeConfig.hasStorage
                        THEN restoreTelemetry(stored.telemetry, storeConfig.maxTelemetryItems)
                        ELSE <<>>
  /\ clearing = FALSE
  /\ fired = NotFired
  /\ inserted = <<>>
  /\ heldAtFire = <<>>
  /\ lastWrites = Applied
  /\ clearCall = "none"
  /\ refs = [history |-> [i \in 1..Len(history) |-> InsightRefs("store")],
             latest |-> InsightRefs("store"),
             telemetry |-> [i \in 1..Len(telemetryHistory) |-> "store"],
             stored |-> [i \in 1..Len(stored.history) |-> InsightRefs("storage")],
             exposed |-> {},
             mutated |-> {}]
  /\ exported = NotExported

\* The constructor on empty storage: nothing to restore.
StoreInit == Constructed([history |-> <<>>, telemetry |-> <<>>])

\* Mutant of StorageAfter: an empty list is not written.
StorageAfterSkippingEmpty(current, key, list) ==
  IF storeConfig.hasStorage /\ list # <<>> THEN [current EXCEPT ![key] = list] ELSE current

\* persistHistory / persistTelemetry: storage.update(key, copy of the list),
\* nothing without storage.
StorageAfter(current, key, list) ==
  IF storeConfig.hasStorage THEN [current EXCEPT ![key] = list] ELSE current

\* The outcomes of the two storage.update calls of one mutation: applied, or
\* rejected and then without effect; a storage that rejects one write of a
\* mutation rejects the other.
WriteOutcomes == IF storeConfig.hasStorage THEN {Applied, Refused} ELSE {Applied}

Written(current, key, list, writes) ==
  IF writes[key] THEN StorageAfter(current, key, list) ELSE current

\* setLatest: clone, unshift, truncate, persist, record telemetry (unshift,
\* truncate, persist), fire.  The rejected promise of a write is dropped
\* (void), so the outcome of the writes shows in storage alone.
SetLatestWrites(insight, writes) ==
  LET cloned == cloneInsight(insight)
      nextHistory == Truncate(Unshift(history, cloned), storeConfig.maxHistoryItems)
      nextTelemetry == Truncate(Unshift(telemetryHistory, TelemetryOf(cloned)),
                                storeConfig.maxTelemetryItems)
      clonedRefs == cloneRefs(InsightRefs("caller"), "store")
      nextRefs == Truncate(Unshift(refs.history, clonedRefs), storeConfig.maxHistoryItems)
      nextTelemetryRefs == Truncate(Unshift(refs.telemetry, "store"),
                                    storeConfig.maxTelemetryItems)
  IN /\ Len(inserted) < MaxInserts
     /\ latest' = cloned
     /\ history' = nextHistory
     /\ telemetryHistory' = nextTelemetry
     /\ storage' = Written(Written(storage, "history", StoredList(nextHistory), writes),
                           "telemetry", StoredTelemetryList(nextTelemetry), writes)
     /\ fired' = Fired(nextHistory)
     /\ heldAtFire' = nextHistory
     /\ inserted' = Append(inserted, insight)
     /\ lastWrites' = writes
     /\ clearCall' = IF clearing THEN clearCall ELSE "none"
     /\ refs' = [refs EXCEPT
           !.history = nextRefs,
           !.latest = clonedRefs,
           !.telemetry = nextTelemetryRefs,
           !.stored = IF storeConfig.hasStorage /\ writes.history
                      THEN CloneAll(CloneAll(nextRefs, "written"), "written") ELSE @,
           !.exposed = @ \cup {"caller"} \cup SitesOf(CloneAll(nextRefs, "notified"))]
     /\ UNCHANGED <<storeConfig, clearing, exported>>

\* setLatest on a store whose storage, if any, accepts the writes.
SetLatest(insight) == SetLatestWrites(insight, Applied)

\* clearHistory when both lists are empty: return at once.
ClearHistoryNoop ==
  /\ ~clearing
  /\ Len(history) = 0 /\ Len(telemetryHistory) = 0
  /\ clearCall' = "returned early"
  /\ UNCHANGED <<storeConfig, history, latest, telemetryHistory, storage, clearing, fired,
                 inserted, heldAtFire, lastWrites, refs, exported>>

\* clearHistory up to its await: nothing when both lists are empty, else
\* empty both lists and latest and issue the two writes.
ClearHistoryStartWrites(writes) ==
  /\ ~clearing
  /\ ~(Len(history) = 0 /\ Len(telemetryHistory) = 0)
  /\ history' = <<>>
  /\ telemetryHistory' = <<>>
  /\ latest' = NoLatest
  /\ storage' = Written(Written(storage, "history", <<>>, writes), "telemetry", <<>>, writes)
  /\ clearing' = TRUE
  /\ inserted' = <<>>
  /\ lastWrites' = writes
  /\ clearCall' = IF writes = Applied THEN "awaiting" ELSE "failing"
  /\ refs' = [refs EXCEPT !.history = <<>>, !.telemetry = <<>>,
                          !.stored = IF storeConfig.hasStorage /\ writes.history
                                     THEN <<>> ELSE @]
  /\ UNCHANGED <<storeConfig, fired, heldAtFire, exported>>

\* clearHistory on a store whose storage, if any, accepts the writes.
ClearHistoryStart == ClearHistoryStartWrites(Applied)

\* clearHistory after its await: fire the empty history.
ClearHistoryFinish ==
  /\ clearing
  /\ clearCall = "awaiting"
  /\ clearing' = FALSE
  /\ clearCall' = "resolved"
  /\ fired' = Fired(<<>>)
  /\ heldAtFire' = getHistory
  /\ UNCHANGED <<storeConfig, history, latest, telemetryHistory, storage, inserted,
                 lastWrites, refs, exported>>

\* clearHistory after its await when a write was rejected: Promise.all
\* rejects, the call rejects, line 113 is not reached.
ClearHistoryReject ==
  /\ clearing
  /\ clearCall = "failing"
  /\ clearing' = FALSE
  /\ clearCall' = "rejected"
  /\ UNCHANGED <<storeConfig, history, latest, telemetryHistory, storage, fired, inserted,
                 heldAtFire, lastWrites, refs, exported>>

\* A bare file name as the string it is: no scheme, one segment, no query.
NameOnly(name) == Uri("", <<name>>, "")

\* extractFileNames: the distinct file names of the string entries.
extractFileNames(raw) ==
  LET names == Dedup(SelectSeq([i \in 1..Len(raw) |-> StoreExtractFileName(raw[i])],
                               IsPresent))
  IN [i \in 1..Len(names) |-> NameOnly(names[i])]

\* sanitizeMetadataForExport: no rawResponse key, files reduced to names
\* when it is an array, every other value copied (toSerializable).
sanitizeMetadataForExport(metadata) ==
  [metadata EXCEPT !.rawResponse = ABSENT,
                   !.files = IF metadata.filesIsArray THEN extractFileNames(@) ELSE @]

toStoredInsight(insight) ==
  LET clone == cloneInsight(insight)
  IN [id |-> clone.id, summary |-> clone.summary, confidence |-> clone.confidence,
      actions |-> clone.actions, timestamp |-> clone.timestamp,
      metadata |-> sanitizeMetadataForExport(clone.metadata)]

\* A read hands objects of these sites to its caller.
Expose(sites) ==
  /\ refs' = [refs EXCEPT !.exposed = @ \cup sites]
  /\ UNCHANGED <<storeConfig, history, latest, telemetryHistory, storage, clearing, fired,
                 inserted, heldAtFire, lastWrites, clearCall>>

GetLatest ==
  /\ latest # NoLatest
  /\ Expose(SitesOf(<<cloneRefs(refs.latest, "reply")>>))
  /\ UNCHANGED exported

GetHistory ==
  /\ Expose(SitesOf(CloneAll(refs.history, "reply")))
  /\ UNCHANGED exported

GetTelemetryHistory ==
  LET copies == CopyExtensions(refs.telemetry, "reply")
  IN /\ Expose({copies[i] : i \in 1..Len(copies)})
     /\ UNCHANGED exported

GetExportSnapshot ==
  LET copies == CopyExtensions(refs.telemetry, "reply")
  IN /\ Expose(SitesOf(CloneAll(refs.history, "reply")) \cup {copies[i] : i \in 1..Len(copies)})
     /\ exported' = [any |-> TRUE, from |-> history,
                     insights |-> [i \in 1..Len(history) |-> toStoredInsight(history[i])],
                     telemetry |-> getTelemetryHistory]

\* A caller writes to the actions array and the metadata object of an
\* insight it holds, or to the fileExtensions array of a snapshot it holds:
\* whoever holds the same objects sees the write.
CallerMutates(site) ==
  /\ site \in refs.exposed
  /\ history' = [i \in 1..Len(history) |-> Touch(history[i], refs.history[i], site)]
  /\ latest' = IF latest = NoLatest THEN latest ELSE Touch(latest, refs.latest, site)
  /\ telemetryHistory' = [i \in 1..Len(telemetryHistory) |->
                            TouchSnapshot(telemetryHistory[i], refs.telemetry[i], site)]
  /\ storage' = [storage EXCEPT
        !.history = [i \in 1..Len(@) |-> TouchStored(@[i], refs.stored[i], site)]]
  /\ refs' = [refs EXCEPT !.mutated = @ \cup {site}]
  /\ UNCHANGED <<storeConfig, clearing, fired, inserted, heldAtFire, lastWrites, clearCall,
                 exported>>

(***************************************************************************)
(* The extension host (extension.ts, activate): the clock, the activity    *)
(* buffer, the cooldown and the triggerAnalysis calls under way.           *)
(***************************************************************************)
VARIABLES
  now,                   \* Date.now(), in milliseconds
  analysisCooldown,      \* the analysisCooldown setting, in seconds
  lastAnalysisTimestamp, \* set in the finally block of triggerAnalysis
  monitoredActivity,     \* the buffer of activity events
  pending,               \* the triggerAnalysis calls suspended at await run()
  started,               \* every run() call made by triggerAnalysis: reason, time
  analysis,              \* the last analyzer call observed: inputs and outcome
  lmStudioSession,       \* lastLmStudioSettings, lmStudioActive, the clients built
                         \* so far, and what the last refreshConfiguration found
  lmClient               \* one LmStudioClient: its loadPromise, the CLI commands it
                         \* executed, the chat() and ensureModelLoaded() calls made

hostVars == <<now, analysisCooldown, lastAnalysisTimestamp, monitoredActivity, pending,
              started, analysis, lmStudioSession, lmClient>>

\* new LmStudioClient(options): no loadPromise, nothing executed.
NewLmStudioClient(preloadModel) ==
  [preloadModel |-> preloadModel, loadPromise |-> "none", loads |-> 0, chats |-> 0,
   calls |-> <<>>]

\* let lastLmStudioSettings (undefined), lmStudioActive = false; no client.
NoSettings == [enabled |-> FALSE, previous |-> FALSE]
NoSession == [settings |-> NoSettings, active |-> FALSE, clients |-> 0,
              read |-> NoSettings, log |-> "none", healthyBefore |-> FALSE]

\* const DEFAULT_ANALYSIS_COOLDOWN = 90
DefaultAnalysisCooldown == 90

NoAnalysis == [analyzer |-> "none"]

\* The extension host of a specification about the engine or the store
\* alone: as activated, nothing observed.
HostIdle ==
  /\ now = 0
  /\ analysisCooldown = DefaultAnalysisCooldown
  /\ lastAnalysisTimestamp = 0
  /\ monitoredActivity = <<>>
  /\ pending = <<>>
  /\ started = <<>>
  /\ analysis = NoAnalysis
  /\ lmStudioSession = NoSession
  /\ lmClient = NewLmStudioClient(TRUE)

vars == <<engineVars, storeVars, hostVars>>

(***************************************************************************)
(* The insights of the two analyzers, with id, timestamp and metadata.     *)
(***************************************************************************)
Abs(n) == IF n < 0 THEN -n ELSE n

\* `insight-${Date.now().toString(36)}`: the prefix and the time in base 36,
\* which differs for different times.
InsightId(time) == [prefix |-> "insight-", base36 |-> time]

DefaultObjective == "Maintain overarching project goals"

\* Mutant of pickObjective: the first objective whatever the time.
pickObjectiveFirst(list, fileTouchCount, languageCount, time) ==
  IF Len(list) = 0 THEN DefaultObjective ELSE list[1]

\* HeuristicAnalyzer.pickObjective on the analyzer's own list (this.objectives).
pickObjective(list, fileTouchCount, languageCount, time) ==
  IF Len(list) = 0 THEN DefaultObjective
  ELSE list[(Abs(fileTouchCount + languageCount + time) % Len(list)) + 1]

\* HeuristicAnalyzer.analyze at the time of the call: list is the analyzer's
\* objectives, base its fallbackConfidenceBase.
HeuristicInsight(list, base, context, stats, source, error, time) ==
  LET dominantObjective == pickObjective(list, Len(stats.files), Len(stats.languages), time)
      core == HeuristicAnalyze(base, stats, source, error)
  IN [id |-> InsightId(time),
      summary |-> core.summary,
      confidence |-> core.confidence,
      actions |-> core.actions,
      timestamp |-> time,
      metadata |-> [source |-> source, files |-> stats.files, languages |-> stats.languages,
                    eventCount |-> stats.eventCount, reason |-> context.reason,
                    changeCount |-> stats.changeCount, saveCount |-> stats.saveCount,
                    objective |-> dominantObjective,
                    errorMessage |-> core.errorMessage]]

\* LmStudioAnalyzer.analyze once client.chat has resolved with the response,
\* at the time of the return: the insight, or the error thrown.
LmStudioInsight(context, stats, response, time) ==
  LET parsed == parseHarmonyResponse(response)
  IN IF ~parsed.ok THEN [ok |-> FALSE, error |-> parsed.error]
     ELSE [ok |-> TRUE, error |-> NoError,
           insight |-> [id |-> InsightId(time),
                        summary |-> parsed.summary,
                        confidence |-> parsed.confidence,
                        actions |-> IF Len(parsed.actions) > 0 THEN parsed.actions
                                    ELSE fallbackActions(stats.changeCount, stats.saveCount),
                        timestamp |-> time,
                        metadata |-> [source |-> "lmstudio", files |-> stats.files,
                                      languages |-> stats.languages,
                                      eventCount |-> stats.eventCount,
                                      reason |-> context.reason,
                                      rawResponse |-> response]]]

(***************************************************************************)
(* The extension's own InsightStore (insightStore.ts) and its triggers.    *)
(***************************************************************************)
MAX_HISTORY_ITEMS == 20

\* InsightStore.setLatest of insightStore.ts: keep the insight itself as the
\* latest and at the head of the history, pop the oldest beyond the cap.
SimpleSetLatest(insight) ==
  LET unshifted == Unshift(history, insight)
  IN /\ latest' = insight
     /\ history' = IF Len(unshifted) > MAX_HISTORY_ITEMS
                   THEN SubSeq(unshifted, 1, Len(unshifted) - 1) ELSE unshifted
     /\ UNCHANGED <<storeConfig, telemetryHistory, storage, clearing, fired, inserted,
                    heldAtFire, lastWrites, clearCall, refs, exported>>

\* Mutant of PushActivity: nothing is ever shifted out.
PushActivityUnbounded(buffer, activity) == Append(buffer, activity)

\* monitoredActivity.push(activity); if (length > 100) shift()
PushActivity(buffer, activity) ==
  LET pushed == Append(buffer, activity)
  IN IF Len(pushed) > 100 THEN Tail(pushed) ELSE pushed

RemoveAt(xs, i) == SubSeq(xs, 1, i - 1) \o SubSeq(xs, i + 1, Len(xs))

\* reason !== 'manual' && now - lastAnalysisTimestamp < analysisCooldown * 1000
CooldownInEffect(reason) ==
  reason # "manual" /\ now - lastAnalysisTimestamp < analysisCooldown * 1000

\* The finally block of triggerAnalysis.
TriggerFinally ==
  /\ monitoredActivity' = <<>>
  /\ lastAnalysisTimestamp' = now

\* triggerAnalysis(reason) up to its await, on the buffer as the caller left
\* it: skip under the cooldown or on an empty buffer; else call run(), which
\* either issues the chat call and suspends, or returns the heuristic
\* insight, in which case the rest of triggerAnalysis (setLatest, finally)
\* runs before any other event is handled.
TriggerAnalysis(reason, buffer) ==
  LET context == [events |-> buffer, objectives |-> objectives, reason |-> reason]
      stats == buildActivityStats(context, config.maxEventsInPrompt)
      call == [reason |-> reason, at |-> now]
  IN /\ IF CooldownInEffect(reason) \/ Len(buffer) = 0
        THEN /\ monitoredActivity' = buffer
             /\ UNCHANGED <<lastAnalysisTimestamp, pending, started, storeVars>>
        ELSE IF stats.threw
        THEN /\ TriggerFinally
             /\ started' = Append(started, call)
             /\ UNCHANGED <<pending, storeVars>>
        ELSE IF UsesLmStudio(lmStudioAnalyzer, lmStudioHealthy)
        THEN /\ monitoredActivity' = buffer
             /\ pending' = Append(pending, [reason |-> reason, at |-> now,
                                              context |-> context, stats |-> stats])
             /\ started' = Append(started, call)
             /\ UNCHANGED <<lastAnalysisTimestamp, storeVars>>
        ELSE /\ SimpleSetLatest(HeuristicInsight(objectives, config.fallbackConfidenceBase,
                                                  context, stats,
                                                  FallbackSource(lmStudioAnalyzer), NoError,
                                                  now))
             /\ TriggerFinally
             /\ started' = Append(started, call)
             /\ UNCHANGED pending
     /\ UNCHANGED <<now, lmStudioSession, lmClient, analysisCooldown, analysis, engineVars>>

\* The ActivityMonitor callback: buffer the event and, on a save, trigger
\* an automatic analysis.
OnActivity(kind, uri, languageId) ==
  LET buffer == PushActivity(monitoredActivity, Event(kind, uri, languageId, now))
  IN IF kind = "documentSave"
     THEN TriggerAnalysis("autosave", buffer)
     ELSE /\ monitoredActivity' = buffer
          /\ UNCHANGED <<now, lmStudioSession, lmClient, analysisCooldown, lastAnalysisTimestamp, pending, started,
                         analysis, engineVars, storeVars>>

\* The codeObserver.analyzeWorkspace command: buffer a manual request and
\* trigger a manual analysis.
AnalyzeWorkspace ==
  TriggerAnalysis("manual",
                  PushActivity(monitoredActivity,
                               Event("analysisRequest", ManualUri, "", now)))

\* The chat call of a suspended run() settles: run() returns the analyzer's
\* insight, or marks LM Studio unhealthy and returns the fallback insight;
\* triggerAnalysis stores it and runs its finally block.
RunSettles(i, outcome) ==
  LET call == pending[i]
      analyzed == IF outcome.resolved
                  THEN LmStudioInsight(call.context, call.stats, outcome.response, now)
                  ELSE [ok |-> FALSE, error |-> outcome.error]
      insight == IF analyzed.ok THEN analyzed.insight
                 ELSE HeuristicInsight(objectives, config.fallbackConfidenceBase,
                                       call.context, call.stats, "lmstudio-fallback",
                                       analyzed.error, now)
  IN /\ i \in 1..Len(pending)
     /\ lmStudioHealthy' = IF analyzed.ok THEN lmStudioHealthy ELSE HealthAfterFailure
     /\ failedSinceAttach' = (failedSinceAttach \/ ~analyzed.ok)
     /\ SimpleSetLatest(insight)
     /\ TriggerFinally
     /\ pending' = RemoveAt(pending, i)
     /\ UNCHANGED <<now, lmStudioSession, lmClient, analysisCooldown, started, analysis, config, objectives,
                    systemPrompt, logger, lmStudioAnalyzer, chatCalls, run, result>>

(***************************************************************************)
(* refreshConfiguration: the settings as read, the snapshot compared with  *)
(* the previous one, the client rebuilt or dropped.                        *)
(***************************************************************************)
\* updatedConfiguration.get<string>(key)?.trim() || undefined
TrimmedOrAbsent(text) == IF text = ABSENT \/ Trim(text) = "" THEN ABSENT ELSE Trim(text)

\* A numeric setting as read: not set, or a number.  A number the snapshot
\* keeps is positive, so 0 stands for undefined there.
NotSet == [given |-> FALSE, value |-> 0]
Given(n) == [given |-> TRUE, value |-> n]
NoNumber == 0

\* typeof raw === 'number' && raw > 0 ? raw : undefined
PositiveOrAbsent(raw) == IF raw.given /\ raw.value > 0 THEN raw.value ELSE NoNumber

\* The LmStudioSettingsSnapshot built from the configuration as read.
SettingsSnapshot(raw) ==
  [enabled |-> raw.enabled,
   cliPath |-> TrimmedOrAbsent(raw.cliPath),
   model |-> TrimmedOrAbsent(raw.model),
   timeoutMs |-> PositiveOrAbsent(raw.timeoutMs),
   ttlSeconds |-> PositiveOrAbsent(raw.ttlSeconds),
   preloadModel |-> raw.preloadModel,
   host |-> TrimmedOrAbsent(raw.host),
   port |-> PositiveOrAbsent(raw.port),
   offline |-> raw.offline]

\* Mutant of areLmStudioSettingsEqual: the offline flag is not compared.
areLmStudioSettingsEqualButOffline(next, previous) ==
  IF previous = NoSettings THEN FALSE
  ELSE [next EXCEPT !.offline = previous.offline] = previous

\* areLmStudioSettingsEqual: false without a previous snapshot, else the
\* nine fields compared with ===.
areLmStudioSettingsEqual(next, previous) ==
  IF previous = NoSettings THEN FALSE
  ELSE /\ next.enabled = previous.enabled
       /\ next.cliPath = previous.cliPath
       /\ next.model = previous.model
       /\ next.timeoutMs = previous.timeoutMs
       /\ next.ttlSeconds = previous.ttlSeconds
       /\ next.preloadModel = previous.preloadModel
       /\ next.host = previous.host
       /\ next.port = previous.port
       /\ next.offline = previous.offline

\* Boolean(lmSettings.enabled && lmSettings.cliPath && lmSettings.model)
ShouldEnable(settings) ==
  settings.enabled /\ settings.cliPath # ABSENT /\ settings.model # ABSENT

\* refreshConfiguration on the configuration as read: objectives, cooldown
\* and system prompt are passed on; when the snapshot equals the previous
\* one nothing more happens; else it is remembered and a new client is
\* built and attached, or the client is dropped.
RefreshConfiguration(raw, maxClients) ==
  LET lmSettings == SettingsSnapshot(raw)
      built == lmStudioSession.clients + 1
  IN /\ objectives' = raw.objectives
     /\ analysisCooldown' = raw.analysisCooldown
     /\ systemPrompt' = TrimmedOrAbsent(raw.systemPrompt)
     /\ IF areLmStudioSettingsEqual(lmSettings, lmStudioSession.settings)
        THEN /\ lmStudioSession' = [lmStudioSession EXCEPT
                   !.read = lmSettings,
                   !.log = IF lmStudioSession.active THEN "unchanged" ELSE "nothing",
                   !.healthyBefore = lmStudioHealthy]
             /\ UNCHANGED <<lmStudioAnalyzer, lmStudioHealthy, failedSinceAttach>>
        ELSE IF ShouldEnable(lmSettings)
        THEN /\ built <= maxClients
             /\ attachLmStudioClient(built)
             /\ lmStudioSession' = [settings |-> lmSettings, active |-> TRUE,
                                     clients |-> built, read |-> lmSettings,
                                     log |-> IF lmStudioSession.active THEN "nothing"
                                                                       ELSE "enabled",
                                     healthyBefore |-> lmStudioHealthy]
        ELSE /\ detachLmStudioClient
             /\ lmStudioSession' = [settings |-> lmSettings, active |-> FALSE,
                                     clients |-> lmStudioSession.clients,
                                     read |-> lmSettings,
                                     log |-> IF lmSettings.enabled THEN "requires cliPath and model"
                                             ELSE IF lmStudioSession.active THEN "disabled"
                                             ELSE "nothing",
                                     healthyBefore |-> lmStudioHealthy]
     /\ UNCHANGED <<config, logger, chatCalls, run, result, now, lastAnalysisTimestamp,
                    monitoredActivity, pending, started, analysis, lmClient, storeVars>>

(***************************************************************************)
(* LmStudioClient: chat, ensureModelLoaded and the CLI commands they run.  *)
(***************************************************************************)
ClientUnchanged ==
  UNCHANGED <<now, analysisCooldown, lastAnalysisTimestamp, monitoredActivity, pending,
              started, analysis, lmStudioSession, engineVars, storeVars>>

\* Mutant of LoadRequested: only a finished load counts.
LoadFinished(loadPromise) == loadPromise = "fulfilled"

\* if (this.loadPromise): a load was requested, whatever became of it.
LoadRequested(loadPromise) == loadPromise # "none"

ClientCall(op, pc) == [op |-> op, pc |-> pc]

\* A call that has passed ensureModelLoaded: chat runs the 'chat' command,
\* ensureModelLoaded returns.
AfterLoad(call) ==
  IF call.op = "chat" THEN ClientCall("chat", "awaiting chat")
  ELSE ClientCall(call.op, "returned")

\* ensureModelLoaded, entered by a call: with a loadPromise, await it (a
\* settled one lets the call go on or fail at once); without one, run the
\* 'load' command, keep its promise and await it.
EnsureModelLoaded(op) ==
  LET loads == IF LoadRequested(lmClient.loadPromise) THEN lmClient.loads
               ELSE lmClient.loads + 1
      promise == IF LoadRequested(lmClient.loadPromise) THEN lmClient.loadPromise
                 ELSE "pending"
      call == CASE promise = "pending" -> ClientCall(op, "awaiting load")
                [] promise = "fulfilled" -> AfterLoad(ClientCall(op, "awaiting load"))
                [] promise = "rejected" -> ClientCall(op, "rejected")
  IN [lmClient EXCEPT
        !.loadPromise = promise,
        !.loads = loads,
        !.chats = IF call.pc = "awaiting chat" THEN @ + 1 ELSE @,
        !.calls = Append(@, call)]

\* client.chat(prompt): a blank prompt throws; with preloadModel the model
\* is ensured first; then the 'chat' command runs.
ChatCall(blankPrompt) ==
  /\ lmClient' = IF blankPrompt
                 THEN [lmClient EXCEPT !.calls = Append(@, ClientCall("chat", "rejected"))]
                 ELSE IF lmClient.preloadModel THEN EnsureModelLoaded("chat")
                 ELSE [lmClient EXCEPT
                         !.chats = @ + 1,
                         !.calls = Append(@, ClientCall("chat", "awaiting chat"))]
  /\ ClientUnchanged

\* client.ensureModelLoaded(), as refreshConfiguration calls it.
EnsureModelLoadedCall ==
  /\ lmClient' = EnsureModelLoaded("ensureModelLoaded")
  /\ ClientUnchanged

\* The 'load' command ends: the loadPromise settles, and every call that
\* awaits it goes on (chat runs its command) or fails with it.
LoadSettles(ok) ==
  LET resumed(call) == IF call.pc # "awaiting load" THEN call
                       ELSE IF ok THEN AfterLoad(call)
                       ELSE ClientCall(call.op, "rejected")
      calls == [i \in 1..Len(lmClient.calls) |-> resumed(lmClient.calls[i])]
      issued == Cardinality({i \in 1..Len(calls) :
                               /\ lmClient.calls[i].pc = "awaiting load"
                               /\ calls[i].pc = "awaiting chat"})
  IN /\ lmClient.loadPromise = "pending"
     /\ lmClient' = [lmClient EXCEPT
                       !.loadPromise = IF ok THEN "fulfilled" ELSE "rejected",
                       !.chats = @ + issued,
                       !.calls = calls]
     /\ ClientUnchanged

\* A 'chat' command ends: the call returns the trimmed output, or throws on
\* a failed command or an empty output.
ChatCliSettles(i, ok) ==
  /\ i \in 1..Len(lmClient.calls)
  /\ lmClient.calls[i].pc = "awaiting chat"
  /\ lmClient' = [lmClient EXCEPT
                    !.calls[i].pc = IF ok THEN "returned" ELSE "rejected"]
  /\ ClientUnchanged

\* The clock moves on.
Tick(elapsed) ==
  /\ now' = now + elapsed
  /\ UNCHANGED <<lmStudioSession, lmClient, analysisCooldown, lastAnalysisTimestamp, monitoredActivity, pending,
                 started, analysis>>

\* fallbackAnalyzer.analyze(context, stats, metadata) on the digest of the
\* context, observed with its inputs.
HeuristicAnalyzerAnalyze(context, source, error) ==
  LET stats == buildActivityStats(context, config.maxEventsInPrompt)
  IN /\ analysis' = [analyzer |-> "heuristic", context |-> context, stats |-> stats,
                      objectives |-> objectives, at |-> now,
                      insight |-> HeuristicInsight(objectives, config.fallbackConfidenceBase,
                                                   context, stats, source, error, now)]
     /\ UNCHANGED <<now, lmStudioSession, lmClient, analysisCooldown, lastAnalysisTimestamp, monitoredActivity, pending,
                    started>>

\* lmStudioAnalyzer.analyze(context, stats) with a client whose chat call
\* resolves with the response, observed with its inputs.
LmStudioAnalyzerAnalyze(context, response) ==
  LET stats == buildActivityStats(context, config.maxEventsInPrompt)
  IN /\ analysis' = [analyzer |-> "lmstudio", context |-> context, stats |-> stats,
                      response |-> response, at |-> now,
                      parsed |-> parseHarmonyResponse(response),
                      outcome |-> LmStudioInsight(context, stats, response, now)]
     /\ UNCHANGED <<now, lmStudioSession, lmClient, analysisCooldown, lastAnalysisTimestamp, monitoredActivity, pending,
                    started>>

\* The observation is dropped.
Forget ==
  /\ analysis # NoAnalysis
  /\ analysis' = NoAnalysis
  /\ UNCHANGED <<now, lmStudioSession, lmClient, analysisCooldown, lastAnalysisTimestamp, monitoredActivity, pending,
                 started>>

(***************************************************************************)
(* Spec: the engine under every operation of its public surface, with the  *)
(* requests and client outcomes of the engine's tests (one request that    *)
(* the digest builder rejects, a valid payload, a malformed payload, a     *)
(* thrown error).                                                          *)
(***************************************************************************)
SampleRequests ==
  {r \in Requests : r.events \in {Batch(1, 2, FALSE), Batch(9, 0, FALSE),
                                  <<StaleEvent>> \o Batch(1, 2, FALSE)}}

SampleOutcomes ==
  {Resolved(<<Object(BasePayload)>>), Resolved(<<Segment("text")>>),
   Rejected(JsError("simulated failure"))}

\* The store of a specification about the engine alone: as constructed.
StoreIdle ==
  /\ StoreInit
  /\ storeConfig = [maxHistoryItems |-> MaxCap, maxTelemetryItems |-> MaxCap,
                    hasStorage |-> FALSE]

Init == EngineInit /\ StoreIdle /\ HostIdle

Next ==
  \/ \E list \in ObjectiveLists : UpdateObjectives(list) /\ UNCHANGED <<storeVars, hostVars>>
  \/ \E prompt \in {ABSENT, " ", "Be brief."} : UpdateSystemPrompt(prompt) /\ UNCHANGED <<storeVars, hostVars>>
  \/ \E next \in {ABSENT, "output channel"} : UpdateLogger(next) /\ UNCHANGED <<storeVars, hostVars>>
  \/ \E client \in {NoClient} \cup Clients : UpdateLmStudioClient(client) /\ UNCHANGED <<storeVars, hostVars>>
  \/ \E request \in SampleRequests : RunStart(request) /\ UNCHANGED <<storeVars, hostVars>>
  \/ \E outcome \in SampleOutcomes : ChatSettle(outcome) /\ UNCHANGED <<storeVars, hostVars>>

Spec == Init /\ [][Next]_vars

\* The client call of a run() eventually completes, fails or times out.
ChatSettles == \E outcome \in SampleOutcomes : ChatSettle(outcome) /\ UNCHANGED <<storeVars, hostVars>>

\* SpecFair: Spec in which every chat call issued eventually settles.
SpecFair == Init /\ [][Next]_vars /\ WF_vars(ChatSettles)

(***************************************************************************)
(* SpecValues: run() over every request, every client outcome and every    *)
(* configuration of the model, on an engine whose client is attached,      *)
(* replaced and detached; objectives, system prompt and logger stay as     *)
(* constructed.                                                            *)
(***************************************************************************)
InitValues ==
  /\ EngineInit
  /\ HostIdle
  /\ StoreIdle
  /\ objectives = <<>>
  /\ systemPrompt = ABSENT
  /\ logger = ABSENT

NextValues ==
  \/ \E client \in {NoClient} \cup Clients : UpdateLmStudioClient(client) /\ UNCHANGED <<storeVars, hostVars>>
  \/ \E request \in Requests : RunStart(request) /\ UNCHANGED <<storeVars, hostVars>>
  \/ \E outcome \in Outcomes : ChatSettle(outcome) /\ UNCHANGED <<storeVars, hostVars>>

SpecValues == InitValues /\ [][NextValues]_vars

(***************************************************************************)
(* SpecStore: an InsightStore constructed on empty storage (or without     *)
(* storage), under setLatest and clearHistory; the engine is at rest.      *)
(***************************************************************************)
EngineIdle ==
  /\ EngineInit
  /\ config = [maxEventsInPrompt |-> 12, fallbackConfidenceBase |-> 550]
  /\ objectives = <<>>
  /\ systemPrompt = ABSENT
  /\ logger = ABSENT
  /\ lmStudioAnalyzer = NoClient

InitStore == EngineIdle /\ StoreInit /\ HostIdle

NextStore ==
  \/ \E insight \in StoreInsights : SetLatest(insight) /\ UNCHANGED <<engineVars, hostVars>>
  \/ ClearHistoryStart /\ UNCHANGED <<engineVars, hostVars>>
  \/ ClearHistoryFinish /\ UNCHANGED <<engineVars, hostVars>>

SpecStore == InitStore /\ [][NextStore]_vars

(***************************************************************************)
(* SpecRestore: an InsightStore constructed on storage that already holds  *)
(* lists (well-formed, malformed, over-long), under setLatest and          *)
(* clearHistory with storage writes that are applied or rejected.          *)
(***************************************************************************)
RestoreInsights == {InsightPool[i] : i \in 1..2}

InitRestore ==
  /\ EngineIdle
  /\ HostIdle
  /\ \E stored \in StoredStates : Constructed(stored)
  /\ storeConfig.hasStorage \/ storage = [history |-> <<>>, telemetry |-> <<>>]

NextRestore ==
  \/ \E insight \in RestoreInsights : \E writes \in WriteOutcomes :
       /\ Len(inserted) < MaxRestoreInserts
       /\ SetLatestWrites(insight, writes)
       /\ UNCHANGED <<engineVars, hostVars>>
  \/ ClearHistoryNoop /\ UNCHANGED <<engineVars, hostVars>>
  \/ \E writes \in WriteOutcomes : ClearHistoryStartWrites(writes) /\ UNCHANGED <<engineVars, hostVars>>
  \/ ClearHistoryFinish /\ UNCHANGED <<engineVars, hostVars>>
  \/ ClearHistoryReject /\ UNCHANGED <<engineVars, hostVars>>

SpecRestore == InitRestore /\ [][NextRestore]_vars

(***************************************************************************)
(* SpecReads: an InsightStore with storage, its reads, and callers that    *)
(* write to the objects they passed in or were handed.                     *)
(***************************************************************************)
Sites == {"caller", "store", "reply", "notified", "written", "storage"}

\* An insight whose metadata.files is one string, not an array.
FilesAsString ==
  [InsightPool[2] EXCEPT !.id = "files as string", !.metadata.filesIsArray = FALSE,
                         !.metadata.files = <<ExampleTsHashed>>]

ReadInsights == RestoreInsights \cup {FilesAsString}

InitReads ==
  /\ EngineIdle
  /\ HostIdle
  /\ StoreInit
  /\ storeConfig.hasStorage
  /\ storeConfig.maxHistoryItems \in {1, MaxCap}
  /\ storeConfig.maxTelemetryItems = MaxCap

NextReads ==
  \/ \E insight \in ReadInsights :
       /\ Len(inserted) < MaxRestoreInserts
       /\ SetLatest(insight)
       /\ UNCHANGED <<engineVars, hostVars>>
  \/ ClearHistoryStart /\ UNCHANGED <<engineVars, hostVars>>
  \/ ClearHistoryFinish /\ UNCHANGED <<engineVars, hostVars>>
  \/ GetLatest /\ UNCHANGED <<engineVars, hostVars>>
  \/ GetHistory /\ UNCHANGED <<engineVars, hostVars>>
  \/ GetTelemetryHistory /\ UNCHANGED <<engineVars, hostVars>>
  \/ GetExportSnapshot /\ UNCHANGED <<engineVars, hostVars>>
  \/ \E site \in Sites : CallerMutates(site) /\ UNCHANGED <<engineVars, hostVars>>

SpecReads == InitReads /\ [][NextReads]_vars

(***************************************************************************)
(* SpecTelemetry: an InsightStore without storage given one insight, whose *)
(* metadata lists any combination of a few files and languages.            *)
(***************************************************************************)
MaxFiles == 3

GitIgnore == Uri("file", <<"workspace", ".gitignore">>, "")
Makefile == Uri("file", <<"workspace", "src", "Makefile">>, "")
Folder == Uri("file", <<"workspace", "src", "">>, "")

FilePool == {ExampleTs, FileA, FileB, ReadmeMd, GitIgnore, Makefile, ManualUri, Folder}

RECURSIVE ListsUpTo(_, _)
\* The sequences of at most n elements of the set.
ListsUpTo(set, n) ==
  IF n = 0 THEN {<<>>}
  ELSE LET shorter == ListsUpTo(set, n - 1)
       IN shorter \cup {Append(list, x) : list \in {l \in shorter : Len(l) = n - 1}, x \in set}

FileLists == ListsUpTo(FilePool, MaxFiles)
LanguageLists == {<<>>, <<"typescript">>, <<"typescript", "markdown">>}

TelemetryInsight(files, languages) ==
  StoredInsight("telemetry", 1,
                Metadata("local-fallback", files, languages, 4, 1, "autosave", ABSENT))

InitTelemetry ==
  /\ EngineIdle
  /\ HostIdle
  /\ StoreInit
  /\ storeConfig = [maxHistoryItems |-> MaxCap, maxTelemetryItems |-> MaxCap,
                    hasStorage |-> FALSE]

NextTelemetry ==
  \E files \in FileLists : \E languages \in LanguageLists :
    /\ Len(inserted) < 1
    /\ SetLatest(TelemetryInsight(files, languages))
    /\ UNCHANGED <<engineVars, hostVars>>

SpecTelemetry == InitTelemetry /\ [][NextTelemetry]_vars

(***************************************************************************)
(* SpecAnalyzers: one call of either analyzer at a time, over contexts on  *)
(* both sides of every threshold, responses with text around the JSON      *)
(* object, every confidence value, at any time and after any               *)
(* updateObjectives.                                                       *)
(***************************************************************************)
MaxTime == 3

AnalyzerBatches ==
  (EventBatches \ {<<StaleEvent>>, <<StaleEvent>> \o Batch(1, 2, FALSE)})
    \cup {Batch(c, s, FALSE) : c \in {6, 8}, s \in {0, 1, 2}}
    \cup {Batch(9, 1, TRUE)}

AnalyzerContexts ==
  {[events |-> b, objectives |-> o,
    reason |-> IF b = <<ManualEvent>> THEN "manual" ELSE "autosave"] :
     b \in AnalyzerBatches,
     o \in {<<>>, <<"Protect module boundaries">>,
            <<"Protect module boundaries", "Protect shared services">>}}

CoercedConfidences == ConfidenceValues \cup {JsEmptyArray, JsString("")}

AnalyzerResponses ==
  Responses
    \cup {<<Object(Payload(GoodSummary, c, TRUE, <<GoodAction>>, JsUndefined))>> :
            c \in CoercedConfidences}
    \cup {<<Object(BasePayload), Segment("garbage")>>,
          <<Segment("text"), Object(BasePayload), Segment("open")>>,
          <<Segment("close"), Object(BasePayload)>>,
          <<Segment("garbage"), Object(BasePayload)>>}

InitAnalyzers ==
  /\ EngineIdle
  /\ StoreIdle
  /\ HostIdle

NextAnalyzers ==
  \/ now < MaxTime /\ Tick(1) /\ UNCHANGED <<engineVars, storeVars>>
  \/ \E list \in ObjectiveLists :
       UpdateObjectives(list) /\ UNCHANGED <<storeVars, hostVars>>
  \/ \E context \in AnalyzerContexts :
       \E metadata \in {<<"local-fallback", NoError>>, <<"lmstudio-fallback", NoError>>,
                         <<"lmstudio-fallback", JsError("simulated failure")>>} :
         /\ analysis = NoAnalysis
         /\ HeuristicAnalyzerAnalyze(context, metadata[1], metadata[2])
         /\ UNCHANGED <<engineVars, storeVars>>
  \/ \E context \in AnalyzerContexts : \E response \in AnalyzerResponses :
       /\ analysis = NoAnalysis
       /\ LmStudioAnalyzerAnalyze(context, response)
       /\ UNCHANGED <<engineVars, storeVars>>
  \/ Forget /\ UNCHANGED <<engineVars, storeVars>>

SpecAnalyzers == InitAnalyzers /\ [][NextAnalyzers]_vars

(***************************************************************************)
(* SpecHost: the activated extension with or without an LM Studio client,  *)
(* under activity events, the manual command, chat calls that settle in    *)
(* any order, and a clock that stands within a millisecond or moves on.    *)
(***************************************************************************)
MaxSeconds == 1
MaxRuns == 2
MaxActivity == 2

HostTimes == {1000 * k + d : k \in 1..MaxSeconds, d \in {0, 1}}

\* A chat call of the host settles with an insight payload or fails.
HostOutcomes == {Resolved(<<Object(BasePayload)>>), Rejected(JsError("simulated failure"))}

InitHost ==
  /\ EngineInit
  /\ config = [maxEventsInPrompt |-> 12, fallbackConfidenceBase |-> 550]
  /\ objectives = <<"Protect module boundaries", "Protect shared services">>
  /\ systemPrompt = ABSENT
  /\ logger = "output channel"
  /\ lmStudioAnalyzer \in {NoClient, 1}
  /\ StoreIdle
  /\ now = 0
  /\ analysisCooldown = 1
  /\ lastAnalysisTimestamp = 0
  /\ monitoredActivity = <<>>
  /\ pending = <<>>
  /\ started = <<>>
  /\ analysis = NoAnalysis
  /\ lmStudioSession = NoSession
  /\ lmClient = NewLmStudioClient(TRUE)

NextHost ==
  \/ \E time \in HostTimes :
       time > now /\ Tick(time - now) /\ UNCHANGED <<engineVars, storeVars>>
  \/ /\ monitoredActivity = <<>>
     /\ OnActivity("documentChange", FileA, "typescript")
  \/ /\ Len(monitoredActivity) < MaxActivity
     /\ Len(started) < MaxRuns
     /\ OnActivity("documentSave", FileA, "typescript")
  \/ /\ Len(monitoredActivity) < MaxActivity
     /\ Len(started) < MaxRuns
     /\ AnalyzeWorkspace
  \/ \E i \in 1..Len(pending) : \E outcome \in HostOutcomes : RunSettles(i, outcome)

SpecHost == InitHost /\ [][NextHost]_vars

(***************************************************************************)
(* SpecConfig: the extension from activation, under configuration changes  *)
(* (settings that change, settings that differ only by blanks or by values *)
(* the snapshot drops, a system prompt that changes) and runs whose chat   *)
(* call succeeds or fails.                                                 *)
(***************************************************************************)
MaxClientsBuilt == 3

DefaultObjectives ==
  <<"Maintain architectural consistency", "Protect critical modules",
    "Keep codebase aligned with objectives">>

RawConfigurations ==
  [enabled : BOOLEAN, cliPath : {ABSENT, "lms", " lms "}, model : {"gpt-oss"},
   timeoutMs : {NotSet, Given(0), Given(5000)}, ttlSeconds : {NotSet},
   preloadModel : {TRUE}, host : {ABSENT}, port : {NotSet}, offline : BOOLEAN,
   systemPrompt : {ABSENT, "Be brief."}, objectives : {DefaultObjectives},
   analysisCooldown : {DefaultAnalysisCooldown}]

\* new AnalysisEngine({objectives, logger}), new InsightStore(), before
\* activate() calls refreshConfiguration for the first time.
InitConfig ==
  /\ config = [maxEventsInPrompt |-> 12, fallbackConfidenceBase |-> 550]
  /\ objectives = DefaultObjectives
  /\ systemPrompt = ABSENT
  /\ logger = "output channel"
  /\ lmStudioAnalyzer = NoClient
  /\ lmStudioHealthy = FALSE
  /\ chatCalls = 0
  /\ run = IdleRun
  /\ result = NoInsight
  /\ failedSinceAttach = FALSE
  /\ StoreIdle
  /\ HostIdle

ConfigRequest == [events |-> Batch(1, 2, FALSE), objectives |-> DefaultObjectives,
                  reason |-> "autosave"]

NextConfig ==
  \/ \E raw \in RawConfigurations : RefreshConfiguration(raw, MaxClientsBuilt)
  \/ /\ lmStudioSession.settings # NoSettings
     /\ run.pc # "awaiting"
     /\ RunStart(ConfigRequest)
     /\ UNCHANGED <<storeVars, hostVars>>
  \/ \E outcome \in SampleOutcomes : ChatSettle(outcome) /\ UNCHANGED <<storeVars, hostVars>>

SpecConfig == InitConfig /\ [][NextConfig]_vars

(***************************************************************************)
(* SpecClient: one LmStudioClient, with or without preloadModel, under     *)
(* chat() and ensureModelLoaded() calls made at any moment, and CLI        *)
(* commands that end well or badly in any order.                           *)
(***************************************************************************)
MaxClientCalls == 4

InitClient ==
  /\ EngineIdle
  /\ StoreIdle
  /\ now = 0
  /\ analysisCooldown = DefaultAnalysisCooldown
  /\ lastAnalysisTimestamp = 0
  /\ monitoredActivity = <<>>
  /\ pending = <<>>
  /\ started = <<>>
  /\ analysis = NoAnalysis
  /\ lmStudioSession = NoSession
  /\ \E preloadModel \in BOOLEAN : lmClient = NewLmStudioClient(preloadModel)

NextClient ==
  \/ \E blankPrompt \in BOOLEAN :
       Len(lmClient.calls) < MaxClientCalls /\ ChatCall(blankPrompt)
  \/ Len(lmClient.calls) < MaxClientCalls /\ EnsureModelLoadedCall
  \/ \E ok \in BOOLEAN : LoadSettles(ok)
  \/ \E i \in 1..Len(lmClient.calls) : \E ok \in BOOLEAN : ChatCliSettles(i, ok)

SpecClient == InitClient /\ [][NextClient]_vars

(***************************************************************************)
(* SpecBuffer: the extension after a stretch of edits without a save (the  *)
(* buffer empty, one short of its limit, or at its limit), under further   *)
(* events, saves within and after the cooldown, and manual requests.       *)
(***************************************************************************)
MaxCaptured == 3
MaxBufferRuns == 1

\* A moment within the cooldown of one second and a moment after it.
BufferTimes == {500, 1500}

\* The buffer after n documentChange events at times 1..n.
Edits(n) == [i \in 1..n |-> Event("documentChange", FileA, "typescript", i)]

\* The events captured after the stretch of edits and still buffered.
Captured ==
  Cardinality({k \in 1..Len(monitoredActivity) : monitoredActivity[k].timestamp > 100})

InitBuffer ==
  /\ EngineInit
  /\ config = [maxEventsInPrompt |-> 12, fallbackConfidenceBase |-> 550]
  /\ objectives = <<"Protect module boundaries", "Protect shared services">>
  /\ systemPrompt = ABSENT
  /\ logger = "output channel"
  /\ lmStudioAnalyzer \in {NoClient, 1}
  /\ StoreIdle
  /\ now = 101
  /\ analysisCooldown = 1
  /\ lastAnalysisTimestamp = 0
  /\ \E n \in {0, 99, 100} : monitoredActivity = Edits(n)
  /\ pending = <<>>
  /\ started = <<>>
  /\ analysis = NoAnalysis
  /\ lmStudioSession = NoSession
  /\ lmClient = NewLmStudioClient(TRUE)

NextBuffer ==
  \/ \E time \in BufferTimes :
       time > now /\ Tick(time - now) /\ UNCHANGED <<engineVars, storeVars>>
  \/ /\ Captured < MaxCaptured
     /\ OnActivity("documentChange", FileA, "typescript")
  \/ /\ Captured < MaxCaptured
     /\ Len(started) < MaxBufferRuns
     /\ OnActivity("documentSave", FileA, "typescript")
  \/ /\ Captured < MaxCaptured
     /\ Len(started) < MaxBufferRuns
     /\ AnalyzeWorkspace
  \/ \E i \in 1..Len(pending) : \E outcome \in HostOutcomes : RunSettles(i, outcome)

SpecBuffer == InitBuffer /\ [][NextBuffer]_vars

(***************************************************************************)
(* The claims.                                                             *)
(***************************************************************************)
Returned == run.pc = "returned"

\* C1 (as stated): once a run() has caught an inference failure, every later
\* run() returns source 'lmstudio-fallback' until updateLmStudioClient(client).
C1_LatchedRunsTaggedLmStudioFallback ==
  (Returned /\ run.callLatched) => result.source = "lmstudio-fallback"

\* C1 (amended): once a run() has caught an inference failure the engine is
\* unhealthy, and every run() called before the next updateLmStudioClient(client)
\* makes no chat call and returns a fallback insight, tagged 'lmstudio-fallback'
\* while an analyzer is attached and 'local-fallback' once it was detached; a
\* run() called with an analyzer attached and no failure since the last
\* updateLmStudioClient(client) calls the client and, unless that call fails,
\* returns source 'lmstudio'.
C1_HealthLatch ==
  /\ failedSinceAttach => ~lmStudioHealthy
  /\ (run.pc \in {"awaiting", "returned"} /\ run.callLatched) =>
       /\ run.chats = 0
       /\ Returned
       /\ result.source = IF run.callAnalyzer # NoClient THEN "lmstudio-fallback"
                          ELSE "local-fallback"
  /\ (run.pc \in {"awaiting", "returned"} /\ ~run.callLatched /\ run.callAnalyzer # NoClient) =>
       /\ run.chats = 1
       /\ (Returned /\ run.error = NoError) => result.source = "lmstudio"

\* C1 witness: a run() called under the latch, analyzer still attached, has
\* returned the fallback insight.
C1_Witness ==
  /\ Returned /\ run.callLatched /\ run.callAnalyzer # NoClient
  /\ result.source = "lmstudio-fallback" /\ ~lmStudioHealthy /\ chatCalls = 1

\* C2: run() never propagates an exception to its caller.
C2_RunNeverRejects == run.pc # "rejected"

\* C3: a run() makes at most one chat call, and none without an analyzer or
\* while unhealthy; between a caught failure and the next
\* updateLmStudioClient(client) the number of chat calls does not grow.
C3_ChatCalls ==
  [][/\ chatCalls' # chatCalls =>
          /\ chatCalls' = chatCalls + 1
          /\ lmStudioAnalyzer # NoClient /\ lmStudioHealthy
          /\ run.pc # "awaiting" /\ run'.pc = "awaiting"
     /\ (run.pc # "awaiting" /\ run'.pc \in {"awaiting", "returned"}
           /\ ~(lmStudioAnalyzer # NoClient /\ lmStudioHealthy)) => chatCalls' = chatCalls
     /\ (failedSinceAttach /\ failedSinceAttach') => chatCalls' = chatCalls]_vars

\* C3 witness: a run() has returned under the latch without a chat call.
C3_Witness ==
  /\ failedSinceAttach /\ Returned /\ run.callLatched /\ run.chats = 0 /\ chatCalls >= 1

\* C4: the source of a returned insight is 'local-fallback' iff no analyzer
\* was attached at the call, 'lmstudio' iff one was attached, the engine was
\* healthy and the analysis did not fail, 'lmstudio-fallback' iff one was
\* attached and the engine was unhealthy or the analysis failed.
C4_Source ==
  Returned =>
    /\ result.source \in {"lmstudio", "lmstudio-fallback", "local-fallback"}
    /\ result.source = "local-fallback" <=> run.callAnalyzer = NoClient
    /\ result.source = "lmstudio" <=>
         (run.callAnalyzer # NoClient /\ run.callHealthy /\ run.error = NoError)
    /\ result.source = "lmstudio-fallback" <=>
         (run.callAnalyzer # NoClient /\ (~run.callHealthy \/ run.error # NoError))

\* C4 witness: an insight of the LM Studio analyzer was returned.
C4_Witness == Returned /\ result.source = "lmstudio" /\ run.chats = 1

\* The kinds of inference failure, read off the settled call: the client
\* threw or timed out, the text is empty, holds no {...} span, holds a span
\* that is no JSON object, or holds an object without a string summary or
\* with a reasoning field that has no trim method.
FailureKind(outcome) ==
  LET raw == outcome.response
      braces == {i \in 1..Len(raw) : raw[i].kind # "text"}
      objects == {i \in 1..Len(raw) : raw[i].kind = "object"}
  IN CASE ~outcome.resolved -> "thrown"
       [] outcome.resolved /\ raw = <<>> -> "empty"
       [] outcome.resolved /\ raw # <<>> /\ braces = {} -> "no span"
       [] outcome.resolved /\ braces # {} /\ (braces # objects \/ Cardinality(objects) # 1) ->
            "invalid JSON"
       [] OTHER ->
            LET payload == raw[CHOOSE i \in objects : TRUE].payload
            IN IF payload.summary.type # "string" \/ payload.summary.text = ""
               THEN "no summary"
               ELSE IF payload.reasoning.type \in {"number", "array"}
               THEN "reasoning not a string"
               ELSE "none"

\* C5: whichever kind of inference failure a run() meets, the engine ends
\* unhealthy and the run() returns a fallback insight tagged 'lmstudio-fallback'.
C5_FailuresLatch ==
  [][\A outcome \in Outcomes :
       (FailureKind(outcome) # "none" /\ ChatSettle(outcome)) =>
         /\ ~lmStudioHealthy'
         /\ run'.pc = "returned"
         /\ result'.source = "lmstudio-fallback"
         /\ result'.summary = "heuristic summary"]_vars

\* C5 witness: a response whose JSON carried no string summary was caught.
C5_Witness ==
  /\ Returned /\ ~lmStudioHealthy
  /\ run.error = JsError("LM Studio response must include a textual \"summary\" field.")

\* C6: the fallback insight of the run() that caught the failure carries the
\* error's message as errorMessage; every other fallback insight carries none.
C6_ErrorMessage ==
  Returned =>
    IF run.error # NoError
    THEN result.errorMessage # ABSENT /\ result.errorMessage = ErrorText(run.error)
    ELSE result.errorMessage = ABSENT

\* C7: only updateLmStudioClient(client) turns lmStudioHealthy from false to
\* true, and it always leaves it true; updateLmStudioClient(undefined) leaves
\* no analyzer and the flag false.
C7_HealthReset ==
  [][/\ (~lmStudioHealthy /\ lmStudioHealthy') =>
          \E client \in Clients : UpdateLmStudioClient(client)
     /\ \A client \in Clients : UpdateLmStudioClient(client) =>
          (lmStudioHealthy' /\ lmStudioAnalyzer' = client)
     /\ UpdateLmStudioClient(NoClient) => (~lmStudioHealthy' /\ lmStudioAnalyzer' = NoClient)]_vars

\* C7 witness: the engine is healthy again after a run() caught a failure.
C7_Witness == Returned /\ run.error # NoError /\ lmStudioHealthy /\ ~failedSinceAttach

\* C8: the confidence of a returned insight lies in [0.05, 0.99] and has two
\* decimals.
C8_ConfidenceRange ==
  Returned => (result.confidence >= 50 /\ result.confidence <= 990
               /\ result.confidence % 10 = 0)

\* C9: a returned insight has at most 4 actions.
C9_AtMostFourActions == Returned => Len(result.actions) <= 4

\* C9 witness: the LM Studio analyzer returned exactly 4 actions.
C9_Witness == Returned /\ result.source = "lmstudio" /\ Len(result.actions) = 4

\* C10: after n setLatest calls on an empty store, getHistory() is the
\* min(n, maxHistoryItems) most recently inserted insights, most recent first.
C10_HistoryIsMostRecent ==
  LET n == Len(inserted)
      shown == getHistory
  IN /\ Len(shown) = Min(n, storeConfig.maxHistoryItems)
     /\ \A i \in 1..Len(shown) : shown[i] = inserted[n + 1 - i]

\* C10 witness: three insertions under a cap of 2 leave <<third, second>>.
C10_Witness ==
  /\ storeConfig.maxHistoryItems = 2 /\ Len(inserted) = 3
  /\ inserted[1].id = "first" /\ inserted[2].id = "second" /\ inserted[3].id = "third"
  /\ [i \in 1..Len(history) |-> history[i].id] = <<"third", "second">>

\* No mutation has happened since construction.
AsConstructed == ~fired.any /\ clearCall = "none"

C12_StorageMirrorsLists ==
  (storeConfig.hasStorage /\ inserted # <<>> /\ lastWrites = Applied) =>
    /\ Len(storage.history) <= storeConfig.maxHistoryItems
    /\ Len(storage.history) = Len(getHistory)
    /\ \A i \in 1..Len(getHistory) :
         /\ storage.history[i].id.type = "string"
         /\ storage.history[i].id.text = getHistory[i].id
    /\ Len(storage.telemetry) = Len(getTelemetryHistory)
    /\ \A i \in 1..Len(getTelemetryHistory) :
         /\ storage.telemetry[i].snapshot = getTelemetryHistory[i]
         /\ isTelemetrySnapshot(storage.telemetry[i])

\* C12 witness: two setLatest calls under a cap of 2 on a store that had
\* restored an entry leave <<second, first>> in storage.
C12_Witness ==
  /\ storeConfig.hasStorage /\ storeConfig.maxHistoryItems = 2 /\ lastWrites = Applied
  /\ Len(inserted) = 2 /\ inserted[1].id = "first" /\ inserted[2].id = "second"
  /\ [i \in 1..Len(storage.history) |-> storage.history[i].id.text] = <<"second", "first">>
  /\ Len(storage.telemetry) >= 1

\* C13: with storage attached, once a clearHistory() call has resolved (and
\* no setLatest was made meanwhile), both in-memory lists are empty,
\* getLatest() is undefined and the lists under both storage keys are empty.
C13_ClearEmptiesMemoryAndStorage ==
  (storeConfig.hasStorage /\ clearCall \in {"resolved", "returned early"} /\ inserted = <<>>) =>
    /\ getHistoryCount = 0
    /\ Len(getTelemetryHistory) = 0
    /\ getLatest = NoLatest
    /\ storage.history = <<>>
    /\ storage.telemetry = <<>>

\* The same insight with its files moved to another directory and given
\* another query string, and with another rawResponse or none.
Relocate(uri, directory, query) ==
  IF uri.segments = <<>> THEN Uri(uri.scheme, <<>>, query)
  ELSE Uri(uri.scheme, directory \o <<uri.segments[Len(uri.segments)]>>, query)

ExportVariants(insight) ==
  {[insight EXCEPT
      !.metadata.files = [j \in 1..Len(@) |-> Relocate(@[j], directory, query)],
      !.metadata.rawResponse = raw] :
     directory \in {<<>>, <<"home", "user", "secret">>},
     query \in {"", "token=abc"},
     raw \in {ABSENT, "{\"prompt\":\"private\"}"}}

\* C14: no exported insight has a rawResponse key in its metadata, every
\* exported file entry is only the decoded final segment of an original
\* entry, and insights that differ only in the directories and query strings
\* of their files and in rawResponse are exported alike.
C14_ExportIsSanitized ==
  exported.any =>
    /\ Len(exported.insights) = Len(exported.from)
    /\ \A i \in 1..Len(exported.from) :
         LET original == exported.from[i]
             out == exported.insights[i]
         IN /\ out.metadata.rawResponse = ABSENT
            /\ \A k \in 1..Len(out.metadata.files) :
                 \E j \in 1..Len(original.metadata.files) :
                   LET segments == original.metadata.files[j].segments
                   IN /\ segments # <<>>
                      /\ out.metadata.files[k] \in
                           {NameOnly(segments[Len(segments)]),
                            NameOnly(decodeURIComponent(segments[Len(segments)]))}
            /\ \A variant \in ExportVariants(original) : toStoredInsight(variant) = out

\* The same insight with its files in another directory, with another
\* summary, other actions and another rawResponse or none.
TelemetryVariants(insight) ==
  {[insight EXCEPT
      !.metadata.files = [j \in 1..Len(@) |-> Relocate(@[j], directory, @[j].query)],
      !.metadata.rawResponse = raw,
      !.summary = summary,
      !.actions = actions] :
     directory \in {<<>>, <<"home", "user", "secret">>},
     raw \in {ABSENT, "{\"prompt\":\"private\"}"},
     summary \in {insight.summary, "Refactor of the billing module"},
     actions \in {insight.actions, <<>>}}

\* C15: the snapshot setLatest derives holds the insight's timestamp and
\* confidence, the number of languages, the extensions of the final segments
\* of the files, changeCount, saveCount, reason and source, and nothing
\* else: insights that differ only in the directories of their files, in
\* summary, actions or rawResponse yield the same snapshot.
C15_TelemetryIsAnonymous ==
  (inserted # <<>> /\ storeConfig.maxTelemetryItems >= 1) =>
    LET insight == inserted[Len(inserted)]
        snapshot == getTelemetryHistory[1]
    IN /\ DOMAIN snapshot = {"timestamp", "languageCount", "fileExtensions", "changeCount",
                             "saveCount", "confidence", "reason", "source"}
       /\ snapshot.timestamp = insight.timestamp
       /\ snapshot.confidence = insight.confidence
       /\ snapshot.languageCount = Len(insight.metadata.languages)
       /\ \A k \in 1..Len(snapshot.fileExtensions) :
            \E j \in 1..Len(insight.metadata.files) :
              LET segments == insight.metadata.files[j].segments
              IN /\ segments # <<>>
                 /\ snapshot.fileExtensions[k] =
                      extractExtension(NameOnly(segments[Len(segments)]))
       /\ \A variant \in TelemetryVariants(insight) : TelemetryOf(variant) = snapshot

\* C15 witness: the snapshot of an insight with three files in directories,
\* two of them Markdown, lists the extensions md and ts.
C15_Witness ==
  /\ inserted # <<>> /\ inserted[Len(inserted)] = InsightPool[2]
  /\ telemetryHistory # <<>>
  /\ telemetryHistory[1].fileExtensions = <<"md", "ts">>
  /\ telemetryHistory[1].languageCount = 2

\* The positions of the stored history list whose entry is an object with
\* string id and summary, number confidence and timestamp and an array as
\* actions; and those of them whose action items are all strings.
ShapedPositions ==
  {j \in 1..Len(storage.history) :
     LET entry == storage.history[j]
     IN /\ entry.isObject
        /\ entry.id.type = "string" /\ entry.summary.type = "string"
        /\ entry.confidence.type = "number" /\ entry.timestamp.type = "number"
        /\ entry.isArray}
TypedPositions ==
  {j \in ShapedPositions :
     \A a \in 1..Len(storage.history[j].actions) : storage.history[j].actions[a].type = "string"}

\* The history is the entries at the positions, in stored order, cut to
\* maxHistoryItems, and getLatest() is the first of them.
HistoryIsEntriesAt(positions) ==
  LET rank(j) == Cardinality({g \in positions : g <= j})
      kept == {j \in positions : rank(j) <= storeConfig.maxHistoryItems}
  IN /\ Len(getHistory) = Cardinality(kept)
     /\ \A j \in kept :
          LET entry == storage.history[j]
              insight == getHistory[rank(j)]
          IN /\ insight.id = entry.id.text
             /\ insight.summary = entry.summary.text
             /\ insight.confidence = entry.confidence.milli
             /\ insight.timestamp * 1000 = entry.timestamp.milli
             /\ Len(insight.actions) = Len(entry.actions)
             /\ \A a \in 1..Len(entry.actions) : insight.actions[a] = JsToString(entry.actions[a])
     /\ getLatest = IF kept = {} THEN NoLatest ELSE getHistory[1]

\* C16 (as stated): a store constructed on a stored list holds exactly the
\* entries whose id, summary, confidence, timestamp and actions are present
\* and rightly typed (actions an array of strings), in stored order, cut to
\* maxHistoryItems; getLatest() is the first of them.
C16_RestoreKeepsTypedEntries ==
  (storeConfig.hasStorage /\ AsConstructed) => HistoryIsEntriesAt(TypedPositions)

\* C16 (amended): a store constructed on a stored list holds exactly the
\* entries that are objects with string id and summary, number confidence
\* and timestamp and an array as actions, whatever the items of the array,
\* which are converted with String(); in stored order, cut to
\* maxHistoryItems; getLatest() is the first of them.
C16_RestoreKeepsShapedEntries ==
  (storeConfig.hasStorage /\ AsConstructed) => HistoryIsEntriesAt(ShapedPositions)

\* C16 witness: of a well-formed entry, an entry without summary and a
\* second well-formed entry, the two well-formed ones were restored.
C16_Witness ==
  /\ storeConfig.hasStorage /\ AsConstructed
  /\ Len(storage.history) = 3 /\ storage.history[2].summary = JsUndefined
  /\ [i \in 1..Len(history) |-> history[i].id] = <<"restored", "older">>
  /\ latest.id = "restored"

\* The five fields of the entries of a history.
CoreFields(list) ==
  [i \in 1..Len(list) |->
     [id |-> list[i].id, summary |-> list[i].summary, confidence |-> list[i].confidence,
      actions |-> list[i].actions, timestamp |-> list[i].timestamp]]

\* C17: when the last writes the store issued were applied, a new store
\* constructed on the same storage with the same caps restores a history with
\* the same entries in the same order, each with the same id, summary,
\* confidence, actions and timestamp.
C17_RoundTrip ==
  (storeConfig.hasStorage /\ lastWrites = Applied) =>
    CoreFields(restoreFromStorage(storage.history, storeConfig.maxHistoryItems))
      = CoreFields(getHistory)

\* C17 witness: a store that restored an entry and was given two insights
\* wrote three entries, and a new store with the cap of 3 restores them.
C17_Witness ==
  /\ storeConfig.hasStorage /\ lastWrites = Applied /\ storeConfig.maxHistoryItems = 3
  /\ Len(inserted) = 2 /\ Len(storage.history) = 3
  /\ [i \in 1..3 |-> restoreFromStorage(storage.history, 3)[i].id]
       = <<inserted[2].id, inserted[1].id, "restored">>
  /\ restoreFromStorage(storage.history, 3)[1].confidence = 750
  /\ restoreFromStorage(storage.history, 3)[1].actions = <<"Review key changes">>

\* C18: a caller's write to the insight it gave to setLatest, or to a value
\* it got from getLatest, getHistory, getTelemetryHistory, getExportSnapshot
\* or a notification, changes no later read of the store and nothing in
\* storage: a step that is no setLatest and no clearHistory step (a read or
\* a caller's write) leaves the three lists of the store, on which every
\* read depends, and the lists in storage as they were.
C18_NoSharedMutableState ==
  [][UNCHANGED <<inserted, clearing>> =>
       UNCHANGED <<history, latest, telemetryHistory, storage>>]_vars

\* C18 witness: a caller has written to the insight it gave and to the
\* values it read, and the store and storage hold two insights as given.
C18_Witness ==
  /\ {"caller", "reply", "notified"} \subseteq refs.mutated
  /\ Len(history) = 2 /\ Len(storage.history) = 2 /\ Len(telemetryHistory) = 2
  /\ \A i \in 1..2 : /\ history[i].actions = <<"Review key changes">>
                      /\ history[i].metadata.reason # "mutated"
  /\ telemetryHistory[1].fileExtensions # <<"mutated">>

\* C19: every change notification carries the history the store holds at
\* the moment it is fired, whatever setLatest calls are made while a
\* clearHistory call awaits its storage writes.
C19_NotificationCarriesHeldHistory ==
  fired.any => fired.history = heldAtFire

\* C20: when storage.update rejects, no call of the store raises to its
\* caller: a setLatest whose writes were rejected (no clearHistory call
\* being under way) has put the insight in the history and notified the
\* subscribers as without storage, and no clearHistory call ends rejected.
C20_StorageFailureIsAbsorbed ==
  /\ (lastWrites = Refused /\ inserted # <<>> /\ clearCall = "none"
      /\ storeConfig.maxHistoryItems > 0) =>
       /\ history[1] = cloneInsight(inserted[Len(inserted)])
       /\ latest = history[1]
       /\ fired = Fired(history)
  /\ clearCall # "rejected"

\* The name of a file: its final path segment, when it has one.
FinalSegment(uri) == uri.segments[Len(uri.segments)]
Named(files) == {i \in 1..Len(files) : files[i].segments # <<>> /\ FinalSegment(files[i]) # ""}

\* The extension of a name: the lower-cased text after its last dot, or the
\* whole lower-cased name when it has no extension (no dot, or a last dot
\* that is its first or its last character).
ExtensionOfName(name) ==
  LET parts == NameParts(name)
      last == parts[Len(parts)]
  IN IF Len(parts) = 1 \/ last = "" \/ (Len(parts) = 2 /\ parts[1] = "")
     THEN toLowerCase(name) ELSE toLowerCase(last)

FilesWithExtension(files, ext) ==
  {i \in Named(files) : ExtensionOfName(decodeURIComponent(FinalSegment(files[i]))) = ext}

\* C21: the fileExtensions of the snapshot derived from an insight list each
\* extension of its metadata.files once, an extension with more files before
\* one with fewer and, between extensions with as many files, the
\* alphabetically earlier first; languageCount is the length of
\* metadata.languages.
C21_ExtensionsByFrequency ==
  (inserted # <<>> /\ telemetryHistory # <<>>) =>
    LET files == inserted[Len(inserted)].metadata.files
        snapshot == getTelemetryHistory[1]
        exts == snapshot.fileExtensions
        count(ext) == Cardinality(FilesWithExtension(files, ext))
    IN /\ snapshot.languageCount = Len(inserted[Len(inserted)].metadata.languages)
       /\ {exts[k] : k \in 1..Len(exts)}
            = {ExtensionOfName(decodeURIComponent(FinalSegment(files[i]))) : i \in Named(files)}
       /\ \A k, l \in 1..Len(exts) : k < l =>
            /\ exts[k] # exts[l]
            /\ \/ count(exts[k]) > count(exts[l])
               \/ /\ count(exts[k]) = count(exts[l])
                  /\ AlphabetRank(exts[k]) < AlphabetRank(exts[l])

\* C21 witness: one Markdown file listed before two TypeScript files gives
\* ts before md, and two languages are counted.
C21_Witness ==
  /\ inserted # <<>> /\ inserted[1].metadata.files = <<FileB, ExampleTs, FileA>>
  /\ telemetryHistory # <<>>
  /\ telemetryHistory[1].fileExtensions = <<"ts", "md">>
  /\ telemetryHistory[1].languageCount = 2

\* The confidence the normalization owes to a payload value: a number is
\* clamped to [0.05, 0.99] and rounded to hundredths; what Number() turns
\* into a number is treated as that number (null, "" and [] as 0, "0.5" as
\* 0.5); everything else, a missing value included, gives 0.7.
Clamped(milli) == IF milli < 50 THEN 50 ELSE IF milli > 990 THEN 990 ELSE milli
RoundedTo(milli) == {h \in 0..1000 : h % 10 = 0 /\ 2 * Abs(h - milli) <= 10}
NumericReading(value) ==
  CASE value.type = "number" -> {value.milli}
    [] value.type = "string" /\ value.text = "0.5" -> {500}
    [] value.type \in {"null", "array"} -> {0}
    [] value.type = "string" /\ value.text = "" -> {0}
    [] OTHER -> {}

ObservedPayload ==
  /\ analysis.analyzer = "lmstudio"
  /\ Len(analysis.response) = 1 /\ analysis.response[1].kind = "object"
  /\ analysis.parsed.ok

\* C22 as stated: a number, or a string that spells one, is clamped to
\* [0.05, 0.99] and rounded; every other value, missing or not, gives 0.7.
C22_NonNumbersGiveDefault ==
  ObservedPayload =>
    LET value == analysis.response[1].payload.confidence
    IN CASE value.type = "number" ->
              analysis.parsed.confidence \in RoundedTo(Clamped(value.milli))
         [] value.type = "string" /\ value.text = "0.5" ->
              analysis.parsed.confidence = 500
         [] OTHER -> analysis.parsed.confidence = 700

\* C22: the confidence of a parsed payload is the payload's value coerced
\* with Number(), clamped to [0.05, 0.99] and rounded to two decimals when
\* that is a finite number (so null, "" and [] give 0.05), and 0.7 when it
\* is not (a missing value, "abc", an infinity).
C22_ConfidenceNormalized ==
  ObservedPayload =>
    LET reading == NumericReading(analysis.response[1].payload.confidence)
    IN IF reading = {} THEN analysis.parsed.confidence = 700
       ELSE \E milli \in reading : analysis.parsed.confidence \in RoundedTo(Clamped(milli))

\* C22 witness: a payload with confidence 5 was parsed to 0.99.
C22_Witness ==
  /\ ObservedPayload
  /\ analysis.response[1].payload.confidence = JsNumber(5000)
  /\ analysis.parsed.confidence = 990

\* An inference analysis whose payload gave no usable action.
SynthesizedActions ==
  /\ analysis.analyzer = "lmstudio"
  /\ analysis.parsed.ok
  /\ analysis.parsed.actions = <<>>

InSeq(x, xs) == \E i \in 1..Len(xs) : xs[i] = x

\* C25 as stated: the inference analyzer's synthesized actions come from a
\* threshold rule exactly when the heuristic analyzer's checkpoint rule
\* fires on the same digest, and are the generic action otherwise.
C25_SameRulesAsHeuristic ==
  SynthesizedActions =>
    LET actions == analysis.outcome.insight.actions
    IN /\ (InSeq(ActionReview, actions) \/ InSeq(ActionPersist, actions))
            <=> InSeq(ActionCheckpoint, deriveActions(analysis.stats))
       /\ InSeq(ActionObjective, actions)
            <=> ~InSeq(ActionCheckpoint, deriveActions(analysis.stats))

\* C25: the synthesized actions are a review action iff changeCount > 6, a
\* persist action iff saveCount = 0, in that order, and the single generic
\* objective-check action iff neither rule fired; the list is never empty.
C25_SynthesizedActions ==
  SynthesizedActions =>
    LET actions == analysis.outcome.insight.actions
        stats == analysis.stats
    IN /\ InSeq(ActionReview, actions) <=> stats.changeCount > 6
       /\ InSeq(ActionPersist, actions) <=> stats.saveCount = 0
       /\ InSeq(ActionObjective, actions) <=> (stats.changeCount <= 6 /\ stats.saveCount # 0)
       /\ Len(actions) \in 1..2
       /\ \A i \in 1..Len(actions) : actions[i] \in {ActionReview, ActionPersist, ActionObjective}
       /\ Len(actions) = 2 => actions = <<ActionReview, ActionPersist>>

\* C25 witness: seven changes and no save with a payload without actions
\* give the review and the persist action, where the heuristic analyzer's
\* checkpoint rule (more than eight changes) does not fire.
C25_Witness ==
  /\ SynthesizedActions
  /\ analysis.stats.changeCount = 7 /\ analysis.stats.saveCount = 0
  /\ analysis.outcome.insight.actions = <<ActionReview, ActionPersist>>
  /\ ~InSeq(ActionCheckpoint, deriveActions(analysis.stats))

\* The positions of the response at which a JSON object stands with nothing
\* but brace-free text before it: the first balanced {...} span.
FirstObjectPositions ==
  {k \in 1..Len(analysis.response) :
     /\ analysis.response[k].kind = "object"
     /\ \A j \in 1..(k - 1) : analysis.response[j].kind = "text"}

\* C26: a response whose first balanced {...} span is a JSON object is
\* parsed as that object alone, whatever text follows it, braces included.
C26_FirstBalancedSpanParsed ==
  analysis.analyzer = "lmstudio" =>
    \A k \in FirstObjectPositions :
      analysis.parsed = parseHarmonyResponse(<<analysis.response[k]>>)

Occurrences(x, xs) == Cardinality({i \in 1..Len(xs) : xs[i] = x})

\* A digest has a representative file when one of its URIs is a file:// URI
\* with a non-empty final segment.
HasRepresentativeFile(stats) ==
  \E i \in 1..Len(stats.files) :
    LET uri == stats.files[i]
    IN uri.scheme = "file" /\ uri.segments # <<>> /\ uri.segments[Len(uri.segments)] # ""

\* C27: the heuristic analyzer's actions hold the file-review action iff the
\* digest has a representative file, the interface-sync action iff it has
\* more than one language, the checkpoint action iff changeCount > 8 and
\* saveCount < 2, and the generic objective-check action, once, iff none of
\* the three; the list is never empty.
C27_HeuristicActions ==
  analysis.analyzer = "heuristic" =>
    LET actions == analysis.insight.actions
        stats == analysis.stats
        walk == HasRepresentativeFile(stats)
        sync == Len(stats.languages) > 1
        checkpoint == stats.changeCount > 8 /\ stats.saveCount < 2
    IN /\ Occurrences(ActionWalk, actions) = IF walk THEN 1 ELSE 0
       /\ Occurrences(ActionSync, actions) = IF sync THEN 1 ELSE 0
       /\ Occurrences(ActionCheckpoint, actions) = IF checkpoint THEN 1 ELSE 0
       /\ Occurrences(ActionEvaluate, actions)
            = IF walk \/ sync \/ checkpoint THEN 0 ELSE 1
       /\ Len(actions) >= 1
       /\ \A i \in 1..Len(actions) :
            actions[i] \in {ActionWalk, ActionSync, ActionCheckpoint, ActionEvaluate}

\* C27 witness: nine changes in one language and one save in another fire all
\* three rules.
C27_Witness ==
  /\ analysis.analyzer = "heuristic"
  /\ analysis.stats.changeCount = 9 /\ analysis.stats.saveCount = 1
  /\ analysis.insight.actions = <<ActionWalk, ActionSync, ActionCheckpoint>>

\* C28 as stated: the objective the heuristic analyzer chose is the entry of
\* the request's objectives at index (fileCount + languageCount + time) mod
\* length, or the default text when the request has none.
C28_ObjectiveOfRequest ==
  analysis.analyzer = "heuristic" =>
    LET list == analysis.context.objectives
        index == (Len(analysis.stats.files) + Len(analysis.stats.languages) + analysis.at)
                   % Len(list)
    IN analysis.insight.metadata.objective
         = IF list = <<>> THEN DefaultObjective ELSE list[index + 1]

\* C28: the objective the heuristic analyzer chose is the entry of the
\* engine's objectives at the time of the call (those of the constructor or
\* of the last updateObjectives call, whatever the request lists) at index
\* (fileCount + languageCount + time) mod length, or the default text when
\* the engine has none.
C28_ObjectiveOfEngine ==
  analysis.analyzer = "heuristic" =>
    LET list == analysis.objectives
        index == (Len(analysis.stats.files) + Len(analysis.stats.languages) + analysis.at)
                   % Len(list)
    IN /\ analysis.insight.metadata.objective
            = IF list = <<>> THEN DefaultObjective ELSE list[index + 1]
       /\ list # <<>> => InSeq(analysis.insight.metadata.objective, list)

\* C28 witness: after updateObjectives with two objectives, at time 1, a
\* request that lists one objective and touches one file in one language
\* got the second objective of the engine.
C28_Witness ==
  /\ analysis.analyzer = "heuristic"
  /\ analysis.at = 1 /\ Len(analysis.stats.files) = 1 /\ Len(analysis.stats.languages) = 1
  /\ analysis.context.objectives = <<"Protect module boundaries">>
  /\ analysis.objectives = <<"Protect module boundaries", "Protect shared services">>
  /\ analysis.insight.metadata.objective = "Protect shared services"

\* C29: the digest a run() built for the prompt holds exactly
\* min(maxRecentLines, eventCount) lines: the last events in receipt order,
\* most recent first, numbered from 1.
C29_RecentEventLines ==
  run.pc = "awaiting" =>
    LET lines == run.stats.recentEvents
        shown == Min(config.maxEventsInPrompt, run.stats.eventCount)
    IN /\ Len(lines) = shown
       /\ \A i \in 1..Len(lines) :
            /\ lines[i].ordinal = i
            /\ i < Len(lines) => lines[i].timestamp >= lines[i + 1].timestamp

\* Two entries of `started` that are both automatic (not manual) analyses.
AutomaticPair(i, j) ==
  /\ i < j
  /\ started[i].reason # "manual"
  /\ started[j].reason # "manual"

\* C23: any two automatic analyses that invoked AnalysisEngine.run were
\* started at least analysisCooldown seconds apart, whatever the timing of
\* the saves and however long the analysis takes.
C23_AutomaticRunsKeepCooldown ==
  \A i, j \in 1..Len(started) :
    AutomaticPair(i, j) => started[j].at - started[i].at >= analysisCooldown * 1000

\* C24: at most one AnalysisEngine.run call is in flight at any time.
C24_OneRunInFlight == Len(pending) <= 1

\* C30: no two entries of the history share an id.
C30_HistoryIdsDistinct ==
  \A i, j \in 1..Len(history) : i # j => history[i].id # history[j].id

\* A step in which the store mutates its lists: a setLatest call, or a
\* clearHistory call that gets past its early return.
StoreMutates == inserted' # inserted \/ (clearing' /\ ~clearing)

\* C31: with storage attached, every mutation passes to storage.update,
\* for the history key and for the telemetry key, the list the store holds
\* in memory right after that mutation, and nothing else writes: so the
\* values written under a key follow the in-memory states in mutation
\* order, also when setLatest runs while a clearHistory call is under way,
\* and a storage that applies the writes in issue order ends with the
\* in-memory lists.
C31_WritesFollowMutations ==
  [][storeConfig.hasStorage =>
       IF StoreMutates
       THEN /\ storage'.history = IF lastWrites'.history THEN StoredList(history')
                                                        ELSE storage.history
            /\ storage'.telemetry = IF lastWrites'.telemetry
                                    THEN StoredTelemetryList(telemetryHistory')
                                    ELSE storage.telemetry
       ELSE storage' = storage]_vars

\* C31 witness: a setLatest made while a clearHistory call awaits its
\* writes; storage, written [] by the clear and then the new list, holds
\* the one-entry history the store holds.
C31_Witness ==
  /\ storeConfig.hasStorage /\ storeConfig.maxHistoryItems > 0
  /\ clearing /\ clearCall = "awaiting" /\ lastWrites = Applied
  /\ Len(inserted) = 1 /\ Len(history) = 1
  /\ storage.history = StoredList(history)
  /\ storage.telemetry = StoredTelemetryList(telemetryHistory)

\* C32 as stated: a configuration change builds and attaches a new client,
\* marking the engine healthy, if and only if the snapshot it reads differs
\* from the previous one.
C32_RebuiltIffSnapshotDiffers ==
  [][lmStudioSession' # lmStudioSession =>
       ((lmStudioSession'.read # lmStudioSession.settings)
          <=> (/\ lmStudioAnalyzer' # NoClient
               /\ lmStudioAnalyzer' # lmStudioAnalyzer
               /\ lmStudioHealthy'))]_vars

\* C32: a configuration change whose snapshot equals the previous one
\* leaves the engine's client and health flag as they are; one whose
\* snapshot differs (or the first one) builds and attaches a new client,
\* marking the engine healthy, when the snapshot is enabled with a cliPath
\* and a model, and otherwise detaches the client and marks the engine
\* unhealthy.
C32_ClientFollowsSnapshot ==
  [][lmStudioSession' # lmStudioSession =>
       IF lmStudioSession'.read = lmStudioSession.settings
       THEN /\ lmStudioAnalyzer' = lmStudioAnalyzer
            /\ lmStudioHealthy' = lmStudioHealthy
       ELSE IF /\ lmStudioSession'.read.enabled
               /\ lmStudioSession'.read.cliPath # ABSENT
               /\ lmStudioSession'.read.model # ABSENT
       THEN /\ lmStudioAnalyzer' # NoClient
            /\ lmStudioAnalyzer' # lmStudioAnalyzer
            /\ lmStudioHealthy'
       ELSE /\ lmStudioAnalyzer' = NoClient
            /\ ~lmStudioHealthy']_vars

\* C32 witness: after a failed run, a configuration change that set the
\* system prompt and read an equal snapshot found the engine unhealthy and
\* left it so, its client still attached.
C32_Witness ==
  /\ lmStudioSession.log = "unchanged" /\ ~lmStudioSession.healthyBefore
  /\ lmStudioSession.read = lmStudioSession.settings
  /\ systemPrompt = "Be brief."
  /\ lmStudioAnalyzer # NoClient /\ ~lmStudioHealthy /\ failedSinceAttach

\* C33: one LmStudioClient executes the 'load' command at most once,
\* however many chat() and ensureModelLoaded() calls are made and however
\* they interleave with the load in progress.
C33_LoadAtMostOnce == lmClient.loads <= 1

\* C33 witness: with preloadModel, a chat() and an ensureModelLoaded() were
\* made while the load started by an earlier chat() was in progress; the
\* load has ended, the two chats have run their commands, one load was
\* executed.
C33_Witness ==
  /\ lmClient.preloadModel /\ lmClient.loadPromise = "fulfilled"
  /\ Len(lmClient.calls) = 3
  /\ lmClient.calls[1].op = "chat" /\ lmClient.calls[2].op = "chat"
  /\ lmClient.calls[3] = ClientCall("ensureModelLoaded", "returned")
  /\ lmClient.calls[1].pc = "awaiting chat" /\ lmClient.calls[2].pc = "awaiting chat"
  /\ lmClient.chats = 2 /\ lmClient.loads = 1

\* C34: every run() call eventually returns an insight, given that the
\* client call it may issue eventually settles, and a run() that finds no
\* analyzer or an unhealthy engine does not wait on the client.
C34_EveryRunReturnsInsight ==
  /\ (run.pc \in {"awaiting", "rejected"}) ~> Returned
  /\ [](run.pc = "awaiting" => (run.callAnalyzer # NoClient /\ run.callHealthy))

\* A run() that waits on the client returns an insight once the call has
\* settled, and only a run() on a healthy engine with an analyzer waits.
RunsThatWaitReturn ==
  /\ (run.pc = "awaiting") ~> Returned
  /\ [](run.pc = "awaiting" => (run.callAnalyzer # NoClient /\ run.callHealthy))

\* C35: lmStudioHealthy turns false only when the client is detached or
\* when a call made through the client now attached fails: the failure of
\* a call issued against a client that was replaced meanwhile does not mark
\* the engine unhealthy.
C35_StaleFailureLeavesHealth ==
  [][(lmStudioHealthy /\ ~lmStudioHealthy') =>
       \/ lmStudioAnalyzer' = NoClient
       \/ /\ run.pc = "awaiting"
          /\ run.callAnalyzer = lmStudioAnalyzer]_vars

\* C36: in every reachable state of the engine, constructed with or
\* without a client and under any interleaving of its operations, a true
\* lmStudioHealthy implies that an analyzer is attached.
C36_HealthyImpliesAttached == lmStudioHealthy => lmStudioAnalyzer # NoClient

\* C36 witness: the client was detached while a run() waited on its chat
\* call, and the call then succeeded: the run returned the analyzer's
\* insight, no analyzer is attached and the flag is false.
C36_Witness ==
  /\ Returned /\ run.callAnalyzer # NoClient /\ run.chats = 1 /\ run.error = NoError
  /\ result.source = "lmstudio"
  /\ lmStudioAnalyzer = NoClient /\ ~lmStudioHealthy

\* C37: in every reachable state of the store, for every maxHistoryItems
\* >= 0, getLatest() is undefined when the history is empty and is the first
\* element of getHistory() otherwise.
C37_LatestHeadsHistory ==
  IF getHistory = <<>> THEN getLatest = NoLatest ELSE getLatest = getHistory[1]

\* With a cap of at least one, getLatest() is undefined exactly when the
\* history is empty and is the first element of getHistory() otherwise.
LatestHeadsHistoryUnderPositiveCap ==
  storeConfig.maxHistoryItems > 0 => C37_LatestHeadsHistory

\* C38: when an analysis completes, every event of the buffer that was
\* not in that analysis's request is still in the buffer afterwards.
C38_LaterEventsStayBuffered ==
  [][\A i \in 1..Len(pending) :
       pending' = RemoveAt(pending, i) =>
         \A k \in 1..Len(monitoredActivity) :
           ~InSeq(monitoredActivity[k], pending[i].context.events)
             => InSeq(monitoredActivity[k], monitoredActivity')]_vars

\* A step in which an event or a manual request is put in the buffer and
\* stays there: the buffer changes and is not emptied.
Buffers == monitoredActivity' # monitoredActivity /\ monitoredActivity' # <<>>

\* C39: the buffer never holds more than 100 events; an event put in a
\* full buffer evicts the oldest one; and a trigger skipped because of the
\* cooldown leaves the buffer (with the event just captured) and
\* lastAnalysisTimestamp as they are and starts no run.
C39_BufferBounded ==
  /\ [](Len(monitoredActivity) <= 100)
  /\ [][Buffers =>
          LET kept == IF Len(monitoredActivity) = 100 THEN Tail(monitoredActivity)
                      ELSE monitoredActivity
              captured == monitoredActivity'[Len(monitoredActivity')]
          IN /\ monitoredActivity' = Append(kept, captured)
             /\ (/\ captured.kind = "documentSave"
                 /\ now - lastAnalysisTimestamp < analysisCooldown * 1000)
                  => UNCHANGED <<lastAnalysisTimestamp, started, pending, history, latest>>]_vars

\* C39 witness: a save captured on a full buffer within the cooldown: the
\* oldest edit was evicted, the buffer holds 100 events ending with the
\* save, no run was started.
C39_Witness ==
  /\ Len(monitoredActivity) = 100
  /\ monitoredActivity[1].timestamp = 2
  /\ monitoredActivity[100].kind = "documentSave"
  /\ now = 101 /\ lastAnalysisTimestamp = 0 /\ started = <<>>

====
